---- MODULE Spec2Model ----
(***************************************************************************)
(* Porter-AI: the aiReply request handler of the server                    *)
(* (server/src/controllers/aiController.ts), its intent classifier, the    *)
(* per-user session map and the Order collection (models/Order.ts), and    *)
(* the voice client (client/src/components/VoiceInterface.tsx): sendToAI,  *)
(* its calls of the order API and speak.                                   *)
(*                                                                         *)
(* Utterances, tracking codes and addresses are TLA+ strings; a string is  *)
(* read character by character with SubSeq, as JavaScript reads it.        *)
(***************************************************************************)
EXTENDS Integers, Sequences, FiniteSets, TLC

(***************************************************************************)
(* JavaScript string primitives                                            *)
(***************************************************************************)
LowerAlpha == "abcdefghijklmnopqrstuvwxyz"
UpperAlpha == "ABCDEFGHIJKLMNOPQRSTUVWXYZ"
DigitChars == "0123456789"

Ch(s, i) == SubSeq(s, i, i)

CharIn(c, alpha) == \E i \in 1..Len(alpha) : Ch(alpha, i) = c

PosIn(c, alpha) == CHOOSE i \in 1..Len(alpha) : Ch(alpha, i) = c

\* String.prototype.toLowerCase, one character
LowerCh(c) == IF CharIn(c, UpperAlpha) THEN Ch(LowerAlpha, PosIn(c, UpperAlpha)) ELSE c

\* String.prototype.toUpperCase, one character
UpperCh(c) == IF CharIn(c, LowerAlpha) THEN Ch(UpperAlpha, PosIn(c, LowerAlpha)) ELSE c

toLowerCase(s) ==
  LET f[i \in 0..Len(s)] == IF i = 0 THEN "" ELSE f[i - 1] \o LowerCh(Ch(s, i))
  IN  f[Len(s)]

toUpperCase(s) ==
  LET f[i \in 0..Len(s)] == IF i = 0 THEN "" ELSE f[i - 1] \o UpperCh(Ch(s, i))
  IN  f[Len(s)]

\* does w occur in s starting at index i (1-based)
MatchAt(s, i, w) == /\ i >= 1
                    /\ i + Len(w) - 1 <= Len(s)
                    /\ SubSeq(s, i, i + Len(w) - 1) = w

\* String.prototype.includes / RegExp.test of a literal
includes(s, w) == \E i \in 1..(Len(s) + 1) : MatchAt(s, i, w)

\* String.prototype.indexOf, 1-based, 0 when absent
indexOf(s, w) ==
  IF includes(s, w)
  THEN CHOOSE i \in 1..(Len(s) + 1) :
         /\ MatchAt(s, i, w)
         /\ \A j \in 1..(i - 1) : ~MatchAt(s, j, w)
  ELSE 0

startsWith(s, w) == MatchAt(s, 1, w)

\* the suffix of s from index i on (String.prototype.slice(i - 1))
SliceFrom(s, i) == IF i > Len(s) THEN "" ELSE SubSeq(s, i, Len(s))

\* String.prototype.trim; the only white space of the utterances is the blank
trim(s) ==
  LET nonBlank == {i \in 1..Len(s) : Ch(s, i) # " "}
      lo == CHOOSE i \in nonBlank : \A j \in nonBlank : i <= j
      hi == CHOOSE i \in nonBlank : \A j \in nonBlank : j <= i
  IN  IF nonBlank = {} THEN "" ELSE SubSeq(s, lo, hi)

\* the character class [A-Za-z0-9]
IsAlnum(c) == CharIn(c, LowerAlpha) \/ CharIn(c, UpperAlpha) \/ CharIn(c, DigitChars)

\* the character class [A-Za-z0-9\-]
IsIdChar(c) == IsAlnum(c) \/ c = "-"

\* the last index of the greedy run X+ that starts at i, for the class alnumOnly
\* selects; i - 1 when the run is empty
RunEnd(s, i, alnumOnly) ==
  LET ok(j) == IF alnumOnly THEN IsAlnum(Ch(s, j)) ELSE IsIdChar(Ch(s, j))
      ends == {e \in (i - 1)..Len(s) :
                 /\ \A j \in i..e : ok(j)
                 /\ (e = Len(s) \/ ~ok(e + 1))}
  IN  IF i > Len(s) THEN i - 1 ELSE CHOOSE e \in ends : TRUE

\* optional values: <<>> is null / undefined, <<v>> is the value v
None == <<>>
Some(v) == <<v>>

(***************************************************************************)
(* Regular expressions of aiController.ts                                  *)
(***************************************************************************)
\* RegExp.test for an alternation of literals
AnyOf(t, lits) == \E w \in lits : includes(t, w)

\* src.match(/<lit>(?:<opt>)?([A-Za-z0-9\-]+)/i)[1]: leftmost match, the
\* optional literal is tried first, the group is greedy.  low is src in lower
\* case (the i flag); opt = "" when the expression has no optional part.
RegexCapture(src, low, lit, opt) ==
  LET n == Len(lit)
      starts == {i \in 1..Len(low) :
                   /\ MatchAt(low, i, lit)
                   /\ i + n <= Len(low)
                   /\ IsIdChar(Ch(low, i + n))}
      i0 == CHOOSE i \in starts : \A j \in starts : i <= j
      g1 == i0 + n + Len(opt)
      g  == IF /\ opt # ""
               /\ MatchAt(low, i0 + n, opt)
               /\ g1 <= Len(low)
               /\ IsIdChar(Ch(low, g1))
            THEN g1 ELSE i0 + n
  IN  IF starts = {} THEN None ELSE Some(SubSeq(src, g, RunEnd(src, g, FALSE)))

\* text.match(/ORD-[A-Za-z0-9]+/i)[0]
MatchOrdCode(text) ==
  LET low == toLowerCase(text)
      starts == {i \in 1..Len(low) :
                   /\ MatchAt(low, i, "ord-")
                   /\ i + 4 <= Len(low)
                   /\ IsAlnum(Ch(low, i + 4))}
      i0 == CHOOSE i \in starts : \A j \in starts : i <= j
  IN  IF starts = {} THEN None ELSE Some(SubSeq(text, i0, RunEnd(text, i0 + 4, TRUE)))

\* text.split(sep)[1]: the piece between the first and the second occurrence
\* of sep; undefined when sep does not occur
SplitSecond(text, sep) ==
  LET p    == indexOf(text, sep)
      rest == SliceFrom(text, p + Len(sep))
      q    == indexOf(rest, sep)
  IN  IF p = 0 THEN None
      ELSE IF q = 0 THEN Some(rest)
      ELSE Some(SubSeq(rest, 1, q - 1))

CreateRx == {"create order", "create an order", "place order", "i want to order",
             "new order", "add order"}
NextPickupRx == {"next pickup", "next delivery", "next order", "what's my next pickup",
                 "what is my next pickup"}
ListRx == {"list orders", "list my orders", "show orders", "show my orders",
           "recent orders"}
CancelRx == {"cancel order", "delete order"}
UpdateAddressRx == {"add address", "update address"}

RoadRx == {"road", "sadak", "route", "weather", "unsafe", "alert"}
EarningsRx == {"earn", "kamaya", "kitna kamaya", "kharcha", "expenses", "profit"}
PenaltyRx == {"penalty", "penalties"}
GrowthRx == {"behtar", "better than last week", "growth", "compare", "summary",
             "performance"}
OnboardRx == {"onboard", "onboarding", "form", "document", "submit", "upload", "kyc",
              "pan", "aadhaar"}
EmergencyRx == {"emergency", "help", "sahayata", "danger"}
ChallanRx == {"challan"}
DigilockerRx == {"digilocker"}
InsuranceRx == {"insurance"}
CustomerRx == {"customer service", "customer"}
FinanceRx == EarningsRx \cup PenaltyRx \cup {"reward", "business", "behtar",
                                              "better than last week"}
SummaryRx == {"business", "growth", "behtar", "compare", "summary", "performance"}
GuideRx == {"guide", "kaise", "how to", "tutorial", "sikhaye", "learn", "module",
            "insurance", "challan", "digilocker", "customer service"}
SafetyRx == {"emergency", "help", "sahayata", "suraksha", "danger", "alert", "unsafe",
             "road", "weather"}

(***************************************************************************)
(* parseIntent                                                             *)
(***************************************************************************)
\* a classifier that tests update_address before cancel_order
parseIntentUpdateFirst(text) ==
  LET t  == toLowerCase(text)
      t1 == RegexCapture(t, t, "track ", "order ")
      t2 == RegexCapture(t, t, "where is order ", "")
      track == IF t1 # None THEN t1 ELSE t2
  IN  IF AnyOf(t, CreateRx) THEN [intent |-> "create_order", trackingId |-> None]
      ELSE IF track # None THEN [intent |-> "track_order", trackingId |-> track]
      ELSE IF AnyOf(t, NextPickupRx) THEN [intent |-> "next_pickup", trackingId |-> None]
      ELSE IF AnyOf(t, ListRx) THEN [intent |-> "list_orders", trackingId |-> None]
      ELSE IF AnyOf(t, UpdateAddressRx)
           THEN [intent |-> "update_address", trackingId |-> None]
      ELSE IF AnyOf(t, CancelRx) THEN [intent |-> "cancel_order", trackingId |-> None]
      ELSE [intent |-> "general", trackingId |-> None]

parseIntent(text) ==
  LET t  == toLowerCase(text)
      t1 == RegexCapture(t, t, "track ", "order ")
      t2 == RegexCapture(t, t, "where is order ", "")
      track == IF t1 # None THEN t1 ELSE t2
  IN  IF AnyOf(t, CreateRx) THEN [intent |-> "create_order", trackingId |-> None]
      ELSE IF track # None THEN [intent |-> "track_order", trackingId |-> track]
      ELSE IF AnyOf(t, NextPickupRx) THEN [intent |-> "next_pickup", trackingId |-> None]
      ELSE IF AnyOf(t, ListRx) THEN [intent |-> "list_orders", trackingId |-> None]
      ELSE IF AnyOf(t, CancelRx) THEN [intent |-> "cancel_order", trackingId |-> None]
      ELSE IF AnyOf(t, UpdateAddressRx)
           THEN [intent |-> "update_address", trackingId |-> None]
      ELSE [intent |-> "general", trackingId |-> None]

\* the if-block of aiReply that handles the utterance, named after the block
Branch(text) ==
  LET parsed == parseIntent(text)
      t == toLowerCase(text)
  IN  IF parsed.intent = "create_order" THEN "create_order"
      ELSE IF parsed.intent = "track_order" /\ parsed.trackingId # None
                /\ parsed.trackingId # Some("") THEN "track_order"
      ELSE IF parsed.intent = "next_pickup" THEN "next_pickup"
      ELSE IF parsed.intent = "list_orders" THEN "list_orders"
      ELSE IF parsed.intent = "cancel_order" THEN "cancel_order"
      ELSE IF parsed.intent = "update_address" THEN "update_address"
      ELSE IF AnyOf(t, RoadRx) THEN "road_ahead"
      ELSE IF AnyOf(t, EarningsRx) THEN "earnings"
      ELSE IF AnyOf(t, PenaltyRx) THEN "penalty"
      ELSE IF AnyOf(t, GrowthRx) THEN "business_growth"
      ELSE IF AnyOf(t, OnboardRx) THEN "onboarding"
      ELSE IF AnyOf(t, EmergencyRx) THEN "emergency"
      ELSE IF AnyOf(t, ChallanRx) THEN "guide_challan"
      ELSE IF AnyOf(t, DigilockerRx) THEN "guide_digilocker"
      ELSE IF AnyOf(t, InsuranceRx) THEN "insurance"
      ELSE IF AnyOf(t, CustomerRx) THEN "customer_service"
      ELSE IF AnyOf(t, FinanceRx) THEN "finance"
      ELSE IF AnyOf(t, OnboardRx) THEN "onboarding_forms"
      ELSE IF AnyOf(t, SummaryRx) THEN "business_summary"
      ELSE IF AnyOf(t, GuideRx) THEN "guides"
      ELSE IF AnyOf(t, SafetyRx) THEN "safety"
      ELSE "general"

\* cancel branch: text.match(/cancel order ([A-Za-z0-9\-]+)/i)
CancelMatch(text) == RegexCapture(text, toLowerCase(text), "cancel order ", "")

\* update_address branch: m[0].toUpperCase()
NormalizedCode(text) ==
  LET m == MatchOrdCode(text) IN IF m = None THEN None ELSE Some(toUpperCase(m[1]))

\* addressMatch = addressMatch.slice(n).trim() when addressMatch starts with
\* the connector (compared in lower case when lower is set)
StripConnector(a, connector, lower) ==
  IF a # None /\ startsWith(IF lower THEN toLowerCase(a[1]) ELSE a[1], connector)
  THEN Some(trim(SliceFrom(a[1], Len(connector) + 1)))
  ELSE a

\* text.split(trackingId)[1]?.trim()
AfterCode(text, trackingId) ==
  IF SplitSecond(text, trackingId) = None THEN None
  ELSE Some(trim(SplitSecond(text, trackingId)[1]))

\* update_address branch: the address that remains after the code
AddressMatch(text) ==
  StripConnector(
    StripConnector(
      StripConnector(AfterCode(text, NormalizedCode(text)[1]), "to ", TRUE),
      "is ", TRUE),
    ":", FALSE)

(***************************************************************************)
(* Bounds and inputs                                                       *)
(***************************************************************************)
\* number of requests of one run
MaxReqs == 2
\* Date.now() at start-up and the last instant of a run, in ticks
StartClock == 13
MaxClock == 14
\* ticks per calendar day
TicksPerDay == 2

DaysPerWeek == 7
\* const MAX = 8 of the fallback branch
MAX == 8
\* .limit(10) of the list_orders branch
ListLimit == 10
\* per-order figures of getBusinessMetrics
OrderWorth == 200
OrderExpense == 50

ReqIds == 1..MaxReqs

\* req.body.userId: absent (None) or given
BodyUserIds == {None, Some("rider-2")}

\* raw Math.random().toString(36).slice(2, 8)
RandomTails == {"7k", "q2"}

SystemPreamble == "You are Porter Saathi, a concise, empathetic, Hindi-speaking assistant for deliveries. Always explain things simply and offer to speak in Hindi if needed."

(***************************************************************************)
(* makeTrackingId                                                          *)
(***************************************************************************)
Digits36 == DigitChars \o LowerAlpha

\* Number.prototype.toString(36)
toString36(n) ==
  LET f[k \in 0..n] == IF k < 36 THEN Ch(Digits36, k + 1)
                       ELSE f[k \div 36] \o Ch(Digits36, (k % 36) + 1)
  IN  f[n]

makeTrackingId(now, tail) == "ORD-" \o toString36(now) \o toUpperCase(tail)

(***************************************************************************)
(* The generative backend's answers                                        *)
(***************************************************************************)
\* what JSON.parse makes of an extractor answer that holds a JSON object
ExtractJson ==
  { [customerName |-> None, address |-> None, item |-> None, qty |-> None,
     pickupTime |-> None],
    [customerName |-> Some("Asha"), address |-> Some("Pune"), item |-> Some("mangoes"),
     qty |-> Some(2), pickupTime |-> Some(20)] }

\* an extractor call ends with a JSON answer, an answer JSON.parse rejects, or
\* an exception
ExtractOutcomes == {[kind |-> "json", obj |-> Some(j)] : j \in ExtractJson}
                     \cup {[kind |-> "not_json", obj |-> None],
                           [kind |-> "error", obj |-> None]}

\* extractOrderFieldsWithLLM without backend, and its catch block
DefaultExtraction(text) ==
  [customerName |-> None, address |-> None, item |-> text, qty |-> 1,
   pickupTime |-> None]

\* extractOrderFieldsWithLLM after the completion returned
ExtractionOf(text, outcome) ==
  IF outcome.kind = "json"
  THEN LET parsed == outcome.obj[1]
       IN  [customerName |-> parsed.customerName,
            address |-> parsed.address,
            item |-> IF parsed.item # None /\ parsed.item # Some("")
                     THEN parsed.item[1] ELSE text,
            qty |-> IF parsed.qty # None /\ parsed.qty # Some(0)
                    THEN parsed.qty[1] ELSE 1,
            pickupTime |-> parsed.pickupTime]
  ELSE DefaultExtraction(text)

\* a translation call ends with a translation (two calls need not agree), an
\* empty answer, or an exception
TranslateOutcomes == {"hindi_a", "hindi_b", "empty", "error"}

\* translateToHindi after the completion returned
TranslationOf(text, outcome) ==
  IF outcome = "hindi_a" THEN "[hi] " \o text
  ELSE IF outcome = "hindi_b" THEN "[hi, reworded] " \o text
  ELSE text

\* a chat call ends with content, without content, or with an exception
ChatOutcomes == {"content", "no_content", "error"}

ChatContent == "Namaste! Main aapki kya madad kar sakta hoon?"


(***************************************************************************)
(* The Order collection (models/Order.ts) and the queries of aiReply       *)
(***************************************************************************)
\* the _id of a document: its creation time and a value that no other document
\* created at that time has, for which the model takes the unique tracking code
ObjectId(now, nonce) == <<now, nonce>>

\* new Order({...}) of the create_order branch, with the schema's defaults and
\* timestamps
NewOrder(extracted, trackingId, userId, now) ==
  [_id          |-> ObjectId(now, trackingId),
   customerName |-> extracted.customerName,
   address      |-> extracted.address,
   item         |-> extracted.item,
   qty          |-> IF extracted.qty # 0 THEN extracted.qty ELSE 1,
   status       |-> "created",
   pickupTime   |-> extracted.pickupTime,
   assignedTo   |-> None,
   trackingId   |-> trackingId,
   metadata     |-> Some([createdBy |-> userId, createdVia |-> "voice"]),
   createdAt    |-> now,
   updatedAt    |-> now]

\* a collection without the unique index: save() accepts every code
DuplicateKeyIgnored(store, trackingId) == FALSE

\* the unique index on trackingId: save() is rejected for a code already stored
DuplicateKey(store, trackingId) == \E i \in 1..Len(store) : store[i].trackingId = trackingId

\* Order.findOne({ trackingId }): index of the document, 0 when there is none
FindByTrackingId(store, trackingId) ==
  LET hits == {i \in 1..Len(store) : store[i].trackingId = trackingId}
  IN  IF hits = {} THEN 0 ELSE CHOOSE i \in hits : \A j \in hits : i <= j

\* ascending sort key order of MongoDB: null sorts before every date
PickupBefore(a, b) ==
  \/ a.pickupTime = None /\ b.pickupTime # None
  \/ a.pickupTime # None /\ b.pickupTime # None /\ a.pickupTime[1] < b.pickupTime[1]

SamePickup(a, b) == a.pickupTime = b.pickupTime

\* findOne({status: {$in: [...]}}).sort({pickupTime: 1, createdAt: 1}): the
\* indices a first document may have (documents equal in both keys are tied)
NextPickupCandidates(store) ==
  LET open == {i \in 1..Len(store) : store[i].status \in {"created", "assigned", "pending"}}
      before(i, j) == \/ PickupBefore(store[i], store[j])
                      \/ /\ SamePickup(store[i], store[j])
                         /\ store[i].createdAt < store[j].createdAt
  IN  {i \in open : \A j \in open : ~before(j, i)}

\* find({}).sort({createdAt: -1}).limit(10): how many documents come back
ListCount(store) == IF Len(store) < ListLimit THEN Len(store) ELSE ListLimit

\* a sort by createdAt ascending
ListedBeforeAscending(store, i, natural) ==
  {j \in 1..Len(store) :
     \/ store[j].createdAt < store[i].createdAt
     \/ /\ store[j].createdAt = store[i].createdAt
        /\ IF natural THEN j < i ELSE j > i}

\* the documents find({}).sort({ createdAt: -1 }) puts before document i; the
\* order of documents of one createdAt is not specified, natural tells which
\* of the two orders the model lets the database use
ListedBefore(store, i, natural) ==
  {j \in 1..Len(store) :
     \/ store[j].createdAt > store[i].createdAt
     \/ /\ store[j].createdAt = store[i].createdAt
        /\ IF natural THEN j < i ELSE j > i}

\* find({}).sort({ createdAt: -1 }).limit(10): the documents that come back
ListOrders(store, natural) ==
  [p \in 1..ListCount(store) |->
     store[CHOOSE i \in 1..Len(store) :
             Cardinality(ListedBefore(store, i, natural)) = p - 1]]

\* an update that flips a cancelled order back to created
SetStatusToggling(store, i, status, now) ==
  [store EXCEPT ![i].status = IF @ = status THEN "created" ELSE status,
                ![i].updatedAt = now]

\* findOneAndUpdate({ trackingId }, patch): the store after the update, with
\* the updatedAt that the schema's timestamps option sets on every update
SetStatus(store, i, status, now) ==
  [store EXCEPT ![i].status = status, ![i].updatedAt = now]
SetAddress(store, i, address, now) ==
  [store EXCEPT ![i].address = Some(address), ![i].updatedAt = now]

(***************************************************************************)
(* getBusinessMetrics                                                      *)
(***************************************************************************)
\* setHours(0, 0, 0, 0)
DayStart(t) == t - (t % TicksPerDay)

\* Date.prototype.getDay; day 0 of the clock is a Sunday
getDay(t) == (t \div TicksPerDay) % DaysPerWeek

CountOrders(store, from, to) ==
  Cardinality({i \in 1..Len(store) : store[i].createdAt >= from /\ store[i].createdAt < to})

getBusinessMetrics(store, now) ==
  LET today == DayStart(now)
      tomorrow == today + TicksPerDay
      todayIdx == {i \in 1..Len(store) : /\ store[i].metadata # None
                                          /\ store[i].createdAt >= today
                                          /\ store[i].createdAt < tomorrow}
      startOfThisWeek == DayStart(now) - getDay(now) * TicksPerDay
      startOfLastWeek == startOfThisWeek - DaysPerWeek * TicksPerDay
  IN  [todayEarnings    |-> Cardinality(todayIdx) * OrderWorth,
       todayExpenses    |-> Cardinality(todayIdx) * OrderExpense,
       thisWeekEarnings |-> CountOrders(store, startOfThisWeek, now) * OrderWorth,
       lastWeekEarnings |-> CountOrders(store, startOfLastWeek, startOfThisWeek) * OrderWorth,
       penalties        |-> Cardinality({i \in todayIdx : store[i].status = "late"}),
       rewards          |-> Cardinality({i \in todayIdx : store[i].status = "delivered"})]

(***************************************************************************)
(* Reply texts.  The rupee sign is written Rs. and the dash of the         *)
(* next-pickup reply is written -                                          *)
(***************************************************************************)
OrElse(opt, dflt) == IF opt # None /\ opt # Some("") THEN opt[1] ELSE dflt

\* items.map(...).join(', ') for n equal items
JoinN(item, n) ==
  LET f[k \in 1..n] == IF k = 1 THEN item ELSE f[k - 1] \o ", " \o item
  IN  IF n = 0 THEN "" ELSE f[n]

CreatedReply(order) == "Order created. Tracking ID " \o order.trackingId \o "."

TrackNotFoundReply(trackingId) == "I couldn't find order " \o trackingId \o "."

TrackReply(order) ==
  "Here are the details for " \o order.trackingId \o ": \n        - Customer: "
    \o OrElse(order.customerName, "N/A") \o " \n        - Items: " \o order.item
    \o " \n        - Address: " \o OrElse(order.address, "N/A")
    \o " \n        - Status: " \o order.status

NoPickupsReply == "You have no upcoming pickups."

NextPickupReply(next) ==
  "Next pickup: " \o next.item \o " (" \o ToString(next.qty) \o ") - "
    \o OrElse(next.address, "address not set") \o ". Tracking ID " \o next.trackingId \o "."

ListReply(n) ==
  IF n # 0 THEN "Showing your " \o ToString(n) \o " most recent orders."
  ELSE "No orders found."

CancelledReply(order) == "Order " \o order.trackingId \o " cancelled."

CancelNotFoundReply(id) == "Couldn't find order " \o id \o "."

AskCancelIdReply == "Please provide the order ID to cancel (e.g., 'Cancel order ORD-abc123')."

AskUpdateIdReply == "Please provide the order ID to update the address (e.g., 'Update address of order ORD-abc123 Pune')."

AskAddressReply(trackingId) ==
  "Please provide the new address after the order ID (e.g., 'Update address of order "
    \o trackingId \o " Pune, Maharashtra')."

UpdateNotFoundReply(trackingId) == "Sorry, I couldn't find order " \o trackingId \o "."

UpdatedReply(trackingId, order) ==
  " The address for order " \o trackingId \o " has been updated to: " \o order.address[1]

EarningsText(m) ==
  "Aaj aapne Rs." \o ToString(m.todayEarnings) \o " kamaya aur Rs."
    \o ToString(m.todayExpenses) \o " kharch kiya. Net earning: Rs."
    \o ToString(m.todayEarnings - m.todayExpenses) \o "."

PenaltyText(m) ==
  IF m.penalties # 0
  THEN "Aap par penalty lagi hai: " \o JoinN("Late delivery (Rs.50)", m.penalties) \o "."
  ELSE "Aap par koi penalty nahi lagi."

RewardText(m) ==
  IF m.rewards # 0
  THEN "Aapko reward mila hai: " \o JoinN("On-time delivery (Rs.100)", m.rewards) \o "."
  ELSE "Aapko abhi tak koi reward nahi mila."

GrowthText(m) ==
  IF m.thisWeekEarnings > m.lastWeekEarnings
  THEN "Haan, iss hafte aapka business pichle hafte se behtar hai."
  ELSE "Nahi, iss hafte kamai kam hai."

makeEmpatheticReply(intent, context) ==
  CASE intent = "road_ahead" ->
         "Aage sadak thodi kharab hai, kripya dhyaan se chalayein. Agar aapko koi dikkat ho, Sahayata button dabayein."
    [] intent = "earnings" -> EarningsText(context)
    [] intent = "penalty" -> PenaltyText(context)
    [] intent = "business_growth" -> GrowthText(context)
    [] intent = "onboarding" ->
         "Onboarding mein madad chahiye? Har field ko dhyan se suno. Galti ho toh main aapko bataunga."
    [] intent = "emergency" ->
         "Aapne Sahayata button dabaya hai. Kripya shaant rahiye, madad ke liye call kiya ja raha hai."
    [] intent = "guide_challan" ->
         "Challan contest karne ke liye: 1. Traffic website par jao. 2. Challan number daalo. 3. Document upload karo. 4. Appeal submit karo."
    [] intent = "guide_digilocker" ->
         "DigiLocker mein document upload karne ke liye: 1. App kholo. 2. Login karo. 3. Upload Documents par jao. 4. File select karke upload karo."
    [] intent = "insurance" ->
         "Vehicle insurance aapko bade kharche se bachata hai. Har saal renew karna zaroori hai."
    [] intent = "customer_service" ->
         "Customer se hamesha vinamrata se baat karein, samay par delivery karein, aur samaan dhyaan se sambhalein."
    [] OTHER ->
         "Maaf kijiye, main aapki madad ke liye yahan hoon. Kripya apna sawaal dobara poochhein."

\* the action field of the branches that answer with makeEmpatheticReply
TopicAction(branch) == IF branch = "earnings" THEN "business_metrics"
                       ELSE IF branch = "onboarding" THEN "onboarding_help"
                       ELSE branch

\* the reply of the Conversational Finance block before translation
FinanceText(text, m) ==
  LET t == toLowerCase(text)
  IN  IF AnyOf(t, {"kharcha", "expenses"}) THEN EarningsText(m)
      ELSE IF AnyOf(t, PenaltyRx) THEN PenaltyText(m)
      ELSE IF AnyOf(t, {"reward"}) THEN RewardText(m)
      ELSE IF AnyOf(t, {"behtar", "better than last week"}) THEN GrowthText(m)
      ELSE "Aaj ki kamai: Rs." \o ToString(m.todayEarnings) \o ". Pichle hafte: Rs."
             \o ToString(m.lastWeekEarnings) \o ". Iss hafte: Rs."
             \o ToString(m.thisWeekEarnings) \o "."

SummaryText(m) ==
  "Aapka business summary: Iss hafte kamai Rs." \o ToString(m.thisWeekEarnings)
    \o ", pichle hafte Rs." \o ToString(m.lastWeekEarnings) \o ". "
    \o (IF m.thisWeekEarnings > m.lastWeekEarnings THEN "Aapne behtar kiya!"
        ELSE "Aapko aur mehnat ki zarurat hai.")

OnboardingFormsText == "Onboarding mein madad chahiye? Har field ko dhyan se suno. Example: \"Naam daaliye\". Agar galti ho, main aapko bataunga. Document upload karne ke liye, photo khinch kar yahan bhejiye."

\* guides.find / learningModules.find of the Life Skills block: the reply and
\* the action of the entry found
GuideAnswer(text) ==
  LET t == toLowerCase(text)
  IN  IF AnyOf(t, {"challan", "how to contest a challan"})
      THEN [reply |-> "How to Contest a Challan:\n1. Go to the official traffic website.\n2. Enter your challan number.\n3. Upload required documents.\n4. Submit your appeal.",
            action |-> "guide"]
      ELSE IF AnyOf(t, {"digilocker", "how to upload to digilocker"})
      THEN [reply |-> "How to Upload to DigiLocker:\n1. Open DigiLocker app.\n2. Login with your mobile number.\n3. Go to Upload Documents.\n4. Select and upload your file.",
            action |-> "guide"]
      ELSE IF AnyOf(t, {"insurance", "vehicle insurance basics"})
      THEN [reply |-> "Vehicle Insurance Basics:\n1. Insurance protects you from big expenses.\n2. You must renew it every year.\n3. Keep your policy document safe.",
            action |-> "learning_module"]
      ELSE IF AnyOf(t, {"customer-service", "customer service tips"})
      THEN [reply |-> "Customer Service Tips:\n1. Greet customers politely.\n2. Be on time.\n3. Handle goods carefully.",
            action |-> "learning_module"]
      ELSE [reply |-> "Kis topic par guide chahiye? Example: \"How to contest a challan\" ya \"Insurance sikhaye\".",
            action |-> "ask_for_guide"]

SafetyText(text) ==
  LET t == toLowerCase(text)
  IN  IF AnyOf(t, {"emergency", "help", "sahayata"})
      THEN "Aapne Sahayata button dabaya hai. Kripya shaant rahiye, madad ke liye call kiya ja raha hai."
      ELSE IF AnyOf(t, {"road", "weather", "unsafe", "alert"})
      THEN "Aage sadak kharab hai, kripya dhyaan se chalayein."
      ELSE "Suraksha ke liye, hamesha seatbelt pehnein aur traffic niyam maanein."

NoContentReply == "Sorry, I didn't get that."

FallbackReply == "Sorry, I couldn't process that right now."

InternalErrorReply == "Internal error"


(***************************************************************************)
(* State                                                                   *)
(***************************************************************************)
VARIABLES
  conversationHistory,  \* the Map userId -> Msg[]; its DOMAIN is the set of keys
  orders,               \* the Order collection, in insertion order
  groq,                 \* TRUE when GROQ_API_KEY is set (the client is not null)
  clock,                \* Date.now()
  req,                  \* the calls of aiReply: position, locals and response
  chatHistory,          \* VoiceInterface: the transcript the client shows
  reminders,            \* VoiceInterface: the reminders the client holds
  send,                 \* the call of sendToAI: position and locals
  timers,               \* the setTimeout callbacks of speak that are pending
  speechSynthesis       \* window.speechSynthesis: the utterances it holds, the
                        \* first one being spoken

\* the state of the client (client/src/components/VoiceInterface.tsx)
clientVars == <<chatHistory, reminders, send, timers, speechSynthesis>>

vars == <<conversationHistory, orders, groq, clock, req, clientVars>>

\* a call of sendToAI that has not been made yet
IdleSend ==
  [pc |-> "idle", text |-> "", trackingId |-> None, order |-> None, items |-> None,
   updates |-> None, paths |-> <<>>]

\* the client after the component has mounted
ClientInit ==
  /\ chatHistory = <<>>
  /\ reminders = <<>>
  /\ send = IdleSend
  /\ timers = <<>>
  /\ speechSynthesis = <<>>

\* a call of aiReply that has not been made yet
IdleReq ==
  [pc |-> "idle", hung |-> FALSE, userId |-> "", text |-> "",
   parsed |-> [intent |-> "", trackingId |-> None], branch |-> "",
   backend |-> "", extracted |-> None, trackingId |-> "", address |-> "",
   draft |-> "", action |-> "", messages |-> <<>>, listed |-> <<>>, userAt |-> 0,
   replyAt |-> 0, res |-> None]

\* positions at which a call waits for the generative backend
BackendWaits == {"extract", "translate", "translate1", "translate2", "chat"}

Init ==
  /\ conversationHistory = <<>>
  /\ orders = <<>>
  /\ groq \in BOOLEAN
  /\ clock = StartClock
  /\ req = [r \in ReqIds |-> IdleReq]
  /\ ClientInit

Msg(role, content) == [role |-> role, content |-> content]

\* history.slice(-MAX)
LastTurns(history, n) ==
  IF Len(history) <= n THEN history ELSE SubSeq(history, Len(history) - n + 1, Len(history))

\* res.json({ reply, action, ... }) after history.push of the reply at index at
Answered(rq, reply, action, at) ==
  [rq EXCEPT !.pc = "done", !.replyAt = at,
             !.res = Some([status |-> 200, reply |-> reply, action |-> action])]

\* the catch block of aiReply: res.status(500).json({ reply: "Internal error" })
Failed(rq) ==
  [rq EXCEPT !.pc = "done",
             !.res = Some([status |-> 500, reply |-> InternalErrorReply, action |-> ""])]

\* one turn array shared by the sessions: the reply lands in every session
ReplyToAll(r, rq, reply, action) ==
  /\ conversationHistory' =
       [u \in DOMAIN conversationHistory |->
          Append(conversationHistory[u], Msg("assistant", reply))]
  /\ req' = [req EXCEPT ![r] =
               Answered(rq, reply, action, Len(conversationHistory[rq.userId]) + 1)]

\* the session written back from the copy the call took when it pushed its
\* user turn: the turns pushed since are dropped
ReplyFromCopy(r, rq, reply, action) ==
  /\ conversationHistory' =
       [conversationHistory EXCEPT ![rq.userId] =
          Append(SubSeq(@, 1, rq.userAt), Msg("assistant", reply))]
  /\ req' = [req EXCEPT ![r] = Answered(rq, reply, action, rq.userAt + 1)]

\* history.push({ role: "assistant", content: reply }) and the response
Reply(r, rq, reply, action) ==
  LET history == conversationHistory[rq.userId]
  IN  /\ conversationHistory' =
           [conversationHistory EXCEPT ![rq.userId] = Append(history, Msg("assistant", reply))]
      /\ req' = [req EXCEPT ![r] = Answered(rq, reply, action, Len(history) + 1)]

(***************************************************************************)
(* aiReply up to its first await                                           *)
(***************************************************************************)
\* the synchronous part of a dispatcher block: either the reply it gives at
\* once (pc "done") or the await it stops at, with the locals it has set
Answer(reply, action) ==
  [pc |-> "done", reply |-> reply, action |-> action, trackingId |-> "", address |-> ""]

Await(pc, draft, action, trackingId, address) ==
  [pc |-> pc, reply |-> draft, action |-> action, trackingId |-> trackingId,
   address |-> address]

CancelBlock(text) ==
  IF CancelMatch(text) # None /\ CancelMatch(text) # Some("")
  THEN Await("cancel_update", "", "", CancelMatch(text)[1], "")
  ELSE Answer(AskCancelIdReply, "ask_for_order_id")

UpdateAddressBlock(text) ==
  IF NormalizedCode(text) = None THEN Answer(AskUpdateIdReply, "ask_for_order_id")
  ELSE IF AddressMatch(text) = None \/ AddressMatch(text) = Some("")
  THEN Answer(AskAddressReply(NormalizedCode(text)[1]), "ask_for_address")
  ELSE Await("address_update", "", "", NormalizedCode(text)[1], AddressMatch(text)[1])

\* a block whose reply goes through translateToHindi twice
TranslatedBlock(reply, action, configured) ==
  IF configured THEN Await("translate1", reply, action, "", "") ELSE Answer(reply, action)

Dispatch(text, branch, parsed, configured) ==
  CASE branch = "create_order" ->
         Await(IF configured THEN "extract" ELSE "save", "", "", "", "")
    [] branch = "track_order" -> Await("find_track", "", "", parsed.trackingId[1], "")
    [] branch = "next_pickup" -> Await("find_next", "", "", "", "")
    [] branch = "list_orders" -> Await("find_list", "", "", "", "")
    [] branch = "cancel_order" -> CancelBlock(text)
    [] branch = "update_address" -> UpdateAddressBlock(text)
    [] branch \in {"road_ahead", "onboarding", "emergency", "guide_challan",
                   "guide_digilocker", "insurance", "customer_service"} ->
         Answer(makeEmpatheticReply(branch, None), TopicAction(branch))
    [] branch \in {"earnings", "penalty", "business_growth", "finance",
                   "business_summary"} ->
         Await("metrics", "", "", "", "")
    [] branch = "onboarding_forms" ->
         TranslatedBlock(OnboardingFormsText, "onboarding_help", configured)
    [] branch = "guides" ->
         TranslatedBlock(GuideAnswer(text).reply, GuideAnswer(text).action, configured)
    [] branch = "safety" -> TranslatedBlock(SafetyText(text), "safety_alert", configured)
    [] OTHER ->
         IF configured THEN Await("chat", "", "", "", "")
         ELSE Answer(FallbackReply, "fallback")

\* a session created without its preamble
SeededEmpty(sessions, userId) ==
  IF userId \in DOMAIN sessions THEN sessions ELSE sessions @@ (userId :> <<>>)

\* a session created anew by every request
SeededAfresh(sessions, userId) ==
  (userId :> <<Msg("system", SystemPreamble)>>) @@ sessions

\* conversationHistory after the has / set of lines 196-200
Seeded(sessions, userId) ==
  IF userId \in DOMAIN sessions THEN sessions
  ELSE sessions @@ (userId :> <<Msg("system", SystemPreamble)>>)

\* the locals of a call that has pushed the user turn and dispatched
Started(userId, text, parsed, branch, plan, userAt) ==
  [IdleReq EXCEPT !.pc = plan.pc, !.userId = userId, !.text = text, !.parsed = parsed,
                  !.branch = branch, !.draft = plan.reply, !.action = plan.action,
                  !.trackingId = plan.trackingId, !.address = plan.address,
                  !.userAt = userAt]

\* the call of userId on text: session lookup, history.push of the user turn,
\* parseIntent and the dispatcher block up to its first await or its response
Receive(r, userId, text, parsed, branch, plan, history) ==
  IF plan.pc = "done"
  THEN /\ conversationHistory' =
            [Seeded(conversationHistory, userId) EXCEPT
               ![userId] = Append(history, Msg("assistant", plan.reply))]
       /\ req' = [req EXCEPT ![r] =
                    Answered(Started(userId, text, parsed, branch, plan, Len(history)),
                             plan.reply, plan.action, Len(history) + 1)]
  ELSE /\ conversationHistory' =
            [Seeded(conversationHistory, userId) EXCEPT ![userId] = history]
       /\ \E tail \in RandomTails :
            req' = [req EXCEPT ![r] =
                      [Started(userId, text, parsed, branch, plan, Len(history)) EXCEPT
                         !.backend = IF plan.pc = "save" THEN "unconfigured" ELSE "",
                         !.extracted = IF plan.pc = "save"
                                       THEN Some(DefaultExtraction(text)) ELSE None,
                         !.trackingId = IF plan.pc = "save"
                                        THEN makeTrackingId(clock, tail)
                                        ELSE plan.trackingId,
                         !.messages = IF plan.pc = "chat"
                                      THEN LastTurns(history, MAX) ELSE <<>>]]

UserIdOf(body) == IF body = None THEN "demo-user" ELSE body[1]

Start(r, texts) ==
  /\ req[r].pc = "idle"
  /\ \A q \in 1..(r - 1) : req[q].pc # "idle"
  /\ \E body \in BodyUserIds, text \in texts :
       Receive(r, UserIdOf(body), text, parseIntent(text), Branch(text),
               Dispatch(text, Branch(text), parseIntent(text), groq),
               Append(Seeded(conversationHistory, UserIdOf(body))[UserIdOf(body)],
                      Msg("user", text)))
  /\ UNCHANGED <<orders, groq, clientVars, clock>>

(***************************************************************************)
(* aiReply resumed after an await.  A store call takes effect and the      *)
(* handler continues to its next await (or to its response) in one step.   *)
(***************************************************************************)
\* create_order: groq.chat.completions.create of extractOrderFieldsWithLLM
\* returns, then makeTrackingId() and new Order(...)
ExtractReturn(r) ==
  /\ req[r].pc = "extract"
  /\ ~req[r].hung
  /\ \E outcome \in ExtractOutcomes, tail \in RandomTails :
       req' = [req EXCEPT ![r] =
                 [req[r] EXCEPT !.pc = "save",
                                !.backend = outcome.kind,
                                !.extracted = Some(ExtractionOf(req[r].text, outcome)),
                                !.trackingId = makeTrackingId(clock, tail)]]
  /\ UNCHANGED <<conversationHistory, orders, groq, clientVars, clock>>

\* create_order: order.save() returns or throws the duplicate-key error
SaveReturn(r) ==
  LET rq == req[r]
      order == NewOrder(rq.extracted[1], rq.trackingId, rq.userId, clock)
  IN  /\ rq.pc = "save"
      /\ IF DuplicateKey(orders, rq.trackingId)
         THEN /\ req' = [req EXCEPT ![r] = Failed(rq)]
              /\ UNCHANGED <<conversationHistory, orders>>
         ELSE /\ orders' = Append(orders, order)
              /\ Reply(r, rq, CreatedReply(order), "created_order")
      /\ UNCHANGED <<groq, clientVars, clock>>

\* track_order: Order.findOne({ trackingId: parsed.trackingId }) returns
TrackReturn(r) ==
  LET rq == req[r]
      i == FindByTrackingId(orders, rq.trackingId)
  IN  /\ rq.pc = "find_track"
      /\ IF i = 0
         THEN Reply(r, rq, TrackNotFoundReply(rq.trackingId), "order_not_found")
         ELSE Reply(r, rq, TrackReply(orders[i]), "track_order")
      /\ UNCHANGED <<orders, groq, clientVars, clock>>

\* a next_pickup block that marks the order it answers with as assigned
NextPickupReturnAssigning(r) ==
  LET rq == req[r]
      first == NextPickupCandidates(orders)
  IN  /\ rq.pc = "find_next"
      /\ IF first = {}
         THEN /\ Reply(r, rq, NoPickupsReply, "no_pickups")
              /\ UNCHANGED orders
         ELSE \E i \in first :
                /\ orders' = SetStatus(orders, i, "assigned", clock)
                /\ Reply(r, [rq EXCEPT !.trackingId = orders[i].trackingId],
                         NextPickupReply(orders[i]), "next_pickup")
      /\ UNCHANGED <<groq, clientVars, clock>>

\* next_pickup: Order.findOne({status ...}).sort(...) returns
NextPickupReturn(r) ==
  LET rq == req[r]
      first == NextPickupCandidates(orders)
  IN  /\ rq.pc = "find_next"
      /\ IF first = {}
         THEN Reply(r, rq, NoPickupsReply, "no_pickups")
         ELSE \E i \in first :
                Reply(r, [rq EXCEPT !.trackingId = orders[i].trackingId],
                      NextPickupReply(orders[i]), "next_pickup")
      /\ UNCHANGED <<orders, groq, clientVars, clock>>

\* list_orders: Order.find({}).sort({ createdAt: -1 }).limit(10) returns
ListReturn(r) ==
  LET rq == req[r]
  IN  /\ rq.pc = "find_list"
      /\ \E natural \in BOOLEAN :
           Reply(r, [rq EXCEPT !.listed = ListOrders(orders, natural)],
                 ListReply(Len(ListOrders(orders, natural))), "list_orders")
      /\ UNCHANGED <<orders, groq, clientVars, clock>>

\* cancel_order: Order.findOneAndUpdate({ trackingId: m[1] }, { status }) returns
CancelReturn(r) ==
  LET rq == req[r]
      i == FindByTrackingId(orders, rq.trackingId)
  IN  /\ rq.pc = "cancel_update"
      /\ IF i = 0
         THEN /\ Reply(r, rq, CancelNotFoundReply(rq.trackingId), "cancel_order")
              /\ UNCHANGED orders
         ELSE /\ orders' = SetStatus(orders, i, "cancelled", clock)
              /\ Reply(r, rq, CancelledReply(orders[i]), "cancel_order")
      /\ UNCHANGED <<groq, clientVars, clock>>

\* update_address: Order.findOneAndUpdate({ trackingId }, { $set: { address } })
\* returns
AddressReturn(r) ==
  LET rq == req[r]
      i == FindByTrackingId(orders, rq.trackingId)
  IN  /\ rq.pc = "address_update"
      /\ IF i = 0
         THEN /\ Reply(r, rq, UpdateNotFoundReply(rq.trackingId), "order_not_found")
              /\ UNCHANGED orders
         ELSE /\ orders' = SetAddress(orders, i, rq.address, clock)
              /\ Reply(r, rq, UpdatedReply(rq.trackingId, orders'[i]), "update_address")
      /\ UNCHANGED <<groq, clientVars, clock>>

\* the metrics branches: getBusinessMetrics returns (its three finds read the
\* collection at one instant)
MetricsReturn(r) ==
  LET rq == req[r]
      metrics == getBusinessMetrics(orders, clock)
  IN  /\ rq.pc = "metrics"
      /\ CASE rq.branch = "finance" ->
                IF groq
                THEN /\ req' = [req EXCEPT ![r] =
                                  [rq EXCEPT !.pc = "translate",
                                             !.draft = FinanceText(rq.text, metrics),
                                             !.action = "business_metrics"]]
                     /\ UNCHANGED conversationHistory
                ELSE Reply(r, rq, FinanceText(rq.text, metrics), "business_metrics")
           [] rq.branch = "business_summary" ->
                IF groq
                THEN /\ req' = [req EXCEPT ![r] =
                                  [rq EXCEPT !.pc = "translate1",
                                             !.draft = SummaryText(metrics),
                                             !.action = "business_summary"]]
                     /\ UNCHANGED conversationHistory
                ELSE Reply(r, rq, SummaryText(metrics), "business_summary")
           [] OTHER ->
                Reply(r, rq, makeEmpatheticReply(rq.branch, metrics), TopicAction(rq.branch))
      /\ UNCHANGED <<orders, groq, clientVars, clock>>

\* Conversational Finance: reply = await translateToHindi(reply), pushed and
\* returned
TranslateReturn(r) ==
  LET rq == req[r]
  IN  /\ rq.pc = "translate"
      /\ ~rq.hung
      /\ \E outcome \in TranslateOutcomes :
           Reply(r, [rq EXCEPT !.backend = outcome], TranslationOf(rq.draft, outcome), rq.action)
      /\ UNCHANGED <<orders, groq, clientVars, clock>>

\* history.push({ ..., content: await translateToHindi(reply) }): the first
\* translation returns and is pushed; the second call is made
FirstTranslateReturn(r) ==
  LET rq == req[r]
      history == conversationHistory[rq.userId]
  IN  /\ rq.pc = "translate1"
      /\ ~rq.hung
      /\ \E outcome \in TranslateOutcomes :
           /\ conversationHistory' =
                [conversationHistory EXCEPT ![rq.userId] =
                   Append(history, Msg("assistant", TranslationOf(rq.draft, outcome)))]
           /\ req' = [req EXCEPT ![r] = [rq EXCEPT !.pc = "translate2",
                                                   !.backend = outcome,
                                                   !.replyAt = Len(history) + 1]]
      /\ UNCHANGED <<orders, groq, clientVars, clock>>

\* res.json({ reply: await translateToHindi(reply), ... }): the second
\* translation returns and is sent
SecondTranslateReturn(r) ==
  LET rq == req[r]
  IN  /\ rq.pc = "translate2"
      /\ ~rq.hung
      /\ \E outcome \in TranslateOutcomes :
           req' = [req EXCEPT ![r] =
                     Answered([rq EXCEPT !.backend = outcome],
                              TranslationOf(rq.draft, outcome), rq.action, rq.replyAt)]
      /\ UNCHANGED <<conversationHistory, orders, groq, clientVars, clock>>

\* general: groq.chat.completions.create of the fallback returns or throws
ChatReturn(r) ==
  LET rq == req[r]
  IN  /\ rq.pc = "chat"
      /\ ~rq.hung
      /\ \E outcome \in ChatOutcomes :
           IF outcome = "error"
           THEN /\ req' = [req EXCEPT ![r] = Failed([rq EXCEPT !.backend = outcome])]
                /\ UNCHANGED conversationHistory
           ELSE Reply(r, [rq EXCEPT !.backend = outcome],
                      IF outcome = "content" THEN ChatContent ELSE NoContentReply,
                      "llm_reply")
      /\ UNCHANGED <<orders, groq, clientVars, clock>>

\* the backend never answers a call: the SDK call has no timeout and aiReply
\* sets none
BackendHangs(r) ==
  /\ req[r].pc \in BackendWaits
  /\ ~req[r].hung
  /\ req' = [req EXCEPT ![r].hung = TRUE]
  /\ UNCHANGED <<conversationHistory, orders, groq, clientVars, clock>>

\* time passes
Tick ==
  /\ clock < MaxClock
  /\ clock' = clock + 1
  /\ UNCHANGED <<conversationHistory, orders, groq, clientVars, req>>


(***************************************************************************)
(* Utterances                                                              *)
(***************************************************************************)
\* the code minted at StartClock with the random tail 7k, as the creation
\* reply prints it, and the same code in upper case
MintedCode == makeTrackingId(StartClock, "7k")
UpperCode == toUpperCase(MintedCode)

\* the utterances of the requests of a run
Utterances ==
  { "create order for 2 mangoes",
    "track order " \o MintedCode,
    "cancel order " \o MintedCode,
    "delete order " \o MintedCode,
    "cancel order",
    "update address of order " \o MintedCode \o " to Pune",
    "update address of order " \o UpperCode \o " to Pune",
    "update address " \o UpperCode,
    "update address",
    "next pickup",
    "list my orders",
    "my earnings",
    "reward",
    "guide me",
    "road alert",
    "hello" }

\* one trigger phrase of every rule of the classifier and of the dispatcher
TriggerPhrases ==
  { "create order", "track ORD-ABC123", "next pickup", "list orders",
    "cancel order " \o MintedCode, "delete order " \o MintedCode,
    "update address " \o UpperCode \o " to Pune",
    "road", "earnings", "penalty", "growth", "kyc", "help", "challan", "digilocker",
    "insurance", "customer", "reward", "guide", "suraksha", "hello" }

\* the utterances the classifier is run on: the utterances of a run, the
\* examples of the specification, every trigger phrase and every two of them
AllUtterances ==
  Utterances
    \cup {"track order ORD-ABC123", "create an order for 2 mangoes",
          "where is order ORD-ABC123", "track my parcel"}
    \cup TriggerPhrases
    \cup {p[1] \o " and " \o p[2] :
            p \in {q \in TriggerPhrases \X TriggerPhrases : q[1] # q[2]}}

(***************************************************************************)
(* Specification                                                           *)
(***************************************************************************)
Step(r, texts) ==
  \/ Start(r, texts)
  \/ ExtractReturn(r)
  \/ SaveReturn(r)
  \/ TrackReturn(r)
  \/ NextPickupReturn(r)
  \/ ListReturn(r)
  \/ CancelReturn(r)
  \/ AddressReturn(r)
  \/ MetricsReturn(r)
  \/ TranslateReturn(r)
  \/ FirstTranslateReturn(r)
  \/ SecondTranslateReturn(r)
  \/ ChatReturn(r)
  \/ BackendHangs(r)

Next ==
  \/ \E r \in ReqIds : Step(r, Utterances)
  \/ Tick

Spec == Init /\ [][Next]_vars

\* one request on any utterance of AllUtterances: the classifier and the
\* dispatcher as functions of the utterance
ClassifyNext ==
  \/ Step(1, AllUtterances)
  \/ Tick

ClassifySpec == Init /\ [][ClassifyNext]_vars

\* the requests that create, look up and change orders
OrderUtterances ==
  { "create order for 2 mangoes",
    "track order " \o MintedCode,
    "cancel order " \o MintedCode,
    "update address of order " \o MintedCode \o " to Pune",
    "update address of order " \o UpperCode \o " to Pune",
    "update address " \o UpperCode }

OrderNext ==
  \/ \E r \in ReqIds :
       \/ Start(r, OrderUtterances)
       \/ ExtractReturn(r)
       \/ SaveReturn(r)
       \/ TrackReturn(r)
       \/ CancelReturn(r)
       \/ AddressReturn(r)
       \/ BackendHangs(r)
  \/ Tick

OrderSpec == Init /\ [][OrderNext]_vars

\* the create_order branch alone: concurrent and successive creations
CreateUtterances == {"create order for 2 mangoes"}

CreateNext ==
  \/ \E r \in ReqIds :
       \/ Start(r, CreateUtterances)
       \/ ExtractReturn(r)
       \/ SaveReturn(r)
       \/ BackendHangs(r)
  \/ Tick

CreateSpec == Init /\ [][CreateNext]_vars

\* The Order collection outlives the server process: a run may start on
\* orders that earlier runs of aiReply have created and cancelled.
\* Date.now() of the first earlier creation
FirstSeedTime == 10
\* the largest collection a run starts on: one order more than list_orders shows
MaxSeeds == 11

\* the earlier creations: SeedsPerTick in every tick from FirstSeedTime on
SeedsPerTick == 4
SeedTime(k) == FirstSeedTime + (k \div SeedsPerTick)

\* raw Math.random().toString(36).slice(2, 8) of the k-th earlier creation
SeedTail(k) == SubSeq(Digits36, k, k + 1)

SeedCode(k) == makeTrackingId(SeedTime(k), SeedTail(k))

\* what the extractor gave for the k-th earlier creation: every other one a
\* JSON answer with a pickup time, later orders with earlier pickup times
SeedExtraction(k) ==
  IF k % 2 = 1
  THEN ExtractionOf("create order for 2 mangoes",
                    [kind |-> "json",
                     obj |-> Some([customerName |-> Some("Asha"), address |-> Some("Pune"),
                                   item |-> Some("mangoes"), qty |-> Some(2),
                                   pickupTime |-> Some(MaxClock + MaxSeeds - k)])])
  ELSE DefaultExtraction("create order for 2 mangoes")

SeedOrder(k) == NewOrder(SeedExtraction(k), SeedCode(k), "demo-user", SeedTime(k))

SeedStore(n) == [k \in 1..n |-> SeedOrder(k)]

\* the collections a run starts on: none to three orders, three with the
\* second one cancelled, and MaxSeeds orders
SeedStores ==
  {SeedStore(n) : n \in {0, 1, 2, 3, MaxSeeds}}
    \cup {SetStatus(SeedStore(3), 2, "cancelled", SeedTime(3))}

StoreInit ==
  /\ conversationHistory = <<>>
  /\ orders \in SeedStores
  /\ groq \in BOOLEAN
  /\ clock = StartClock
  /\ req = [r \in ReqIds |-> IdleReq]
  /\ ClientInit

\* a code that no order has
UnknownCode == "ORD-ZZ9"

\* the requests that look up, list and cancel stored orders
StoreUtterances ==
  { "track order " \o UnknownCode,
    "cancel order " \o SeedCode(1),
    "delete order " \o SeedCode(1),
    "cancel order " \o UnknownCode,
    "cancel order please",
    "cancel order",
    "update address",
    "next pickup",
    "list my orders" }

StoreNext ==
  \/ \E r \in ReqIds :
       \/ Start(r, StoreUtterances)
       \/ TrackReturn(r)
       \/ NextPickupReturn(r)
       \/ ListReturn(r)
       \/ CancelReturn(r)
  \/ Tick

StoreSpec == StoreInit /\ [][StoreNext]_vars

\* cancel requests on stored orders
CancelUtterances == {"cancel order " \o SeedCode(1), "cancel order " \o SeedCode(2)}

CancelNext ==
  \/ \E r \in ReqIds : Start(r, CancelUtterances) \/ CancelReturn(r)
  \/ Tick

CancelSpec == StoreInit /\ [][CancelNext]_vars

\* list requests next to cancel requests
ListUtterances == {"list my orders", "cancel order " \o SeedCode(1)}

ListNext ==
  \/ \E r \in ReqIds : Start(r, ListUtterances) \/ ListReturn(r) \/ CancelReturn(r)
  \/ Tick

ListSpec == StoreInit /\ [][ListNext]_vars

\* An order that was not created by aiReply but through the order API
\* (create(fields) of the persistence collaborator): it has the tracking code
\* its creator gave it and no metadata.  It was created at the start of the
\* day of StartClock.
ForeignCode == "ORD-ABC123"

ForeignOrder ==
  [NewOrder(DefaultExtraction("2 mangoes"), ForeignCode, "", DayStart(StartClock))
     EXCEPT !.metadata = None]

\* the collections with and without such an order
MixedStores == {SeedStore(0), SeedStore(2), Append(SeedStore(1), ForeignOrder)}

MixedInit ==
  /\ conversationHistory = <<>>
  /\ orders \in MixedStores
  /\ groq \in BOOLEAN
  /\ clock = StartClock
  /\ req = [r \in ReqIds |-> IdleReq]
  /\ ClientInit

\* one utterance for every block of aiReply
BranchUtterances ==
  { "create order for 2 mangoes",
    "track order " \o SeedCode(1),
    "next pickup",
    "list my orders",
    "cancel order " \o SeedCode(1),
    "update address of order " \o ForeignCode \o " to Pune",
    "road alert", "my earnings", "penalty", "growth", "kyc", "help", "challan",
    "digilocker", "insurance", "customer", "reward", "guide me", "suraksha", "hello" }

\* one request on any of them
BranchNext ==
  \/ Step(1, BranchUtterances)
  \/ Tick

BranchSpec == MixedInit /\ [][BranchNext]_vars

\* the requests that ask for the metrics, next to requests that create orders
MetricsUtterances == {"create order for 2 mangoes", "my earnings", "growth"}

MetricsNext ==
  \/ \E r \in ReqIds :
       \/ Start(r, MetricsUtterances)
       \/ ExtractReturn(r)
       \/ SaveReturn(r)
       \/ MetricsReturn(r)
       \/ BackendHangs(r)
  \/ Tick

MetricsSpec == MixedInit /\ [][MetricsNext]_vars

\* Long sessions.  A call that has responded is over, and the next call of
\* aiReply takes its place.
\* the most turns the sessions hold together, the user turn of the request
\* being started counted
MaxTurns == 10

Recycle(r) ==
  /\ req[r].pc = "done"
  /\ req' = [req EXCEPT ![r] = IdleReq]
  /\ UNCHANGED <<conversationHistory, orders, groq, clientVars, clock>>

\* the number of turns of the sessions of the users in us
RECURSIVE TurnCount(_)
TurnCount(us) ==
  IF us = {} THEN 0
  ELSE LET u == CHOOSE x \in us : TRUE
       IN  Len(conversationHistory[u]) + TurnCount(us \ {u})

\* the sessions hold fewer than MaxTurns turns
RoomForTurn == TurnCount(DOMAIN conversationHistory) + 1 <= MaxTurns

\* requests of the general branch, made one after the other
ChatUtterances == {"hello"}

ChatNext ==
  \/ RoomForTurn /\ Start(1, ChatUtterances)
  \/ ChatReturn(1)
  \/ BackendHangs(1)
  \/ Recycle(1)

ChatSpec == Init /\ [][ChatNext]_vars

\* requests that write to the session in each of the ways aiReply has: answered
\* at once, after one await, and with a turn pushed between two awaits
SessionUtterances == {"hello", "guide me", "road alert"}

SessionNext ==
  \E r \in ReqIds :
    \/ Start(r, SessionUtterances)
    \/ FirstTranslateReturn(r)
    \/ SecondTranslateReturn(r)
    \/ ChatReturn(r)
    \/ BackendHangs(r)

SessionSpec == Init /\ [][SessionNext]_vars

\* the requests that call the generative backend
BackendUtterances == {"create order for 2 mangoes", "reward", "guide me", "hello"}

\* a call of aiReply resumes when what it awaits has returned
Resume(r) ==
  \/ ExtractReturn(r)
  \/ SaveReturn(r)
  \/ MetricsReturn(r)
  \/ TranslateReturn(r)
  \/ FirstTranslateReturn(r)
  \/ SecondTranslateReturn(r)
  \/ ChatReturn(r)

FairNext ==
  \/ \E r \in ReqIds : Start(r, BackendUtterances) \/ Resume(r) \/ BackendHangs(r)
  \/ Tick

\* the event loop runs every continuation whose awaited call has returned
FairSpec == Init /\ [][FairNext]_vars /\ \A r \in ReqIds : WF_vars(Resume(r))


\* request r was received, has responded; its response
Received(r) == req[r].pc # "idle"

Responded(r) == req[r].res # None

Res(r) == req[r].res[1]

(***************************************************************************)
(* The client: client/src/components/VoiceInterface.tsx                    *)
(***************************************************************************)
\* text.match(/ORD-[a-zA-Z0-9]+/)[0], null when there is no match
extractTrackingId(text) ==
  LET starts == {i \in 1..Len(text) :
                   /\ MatchAt(text, i, "ORD-")
                   /\ i + 4 <= Len(text)
                   /\ IsAlnum(Ch(text, i + 4))}
      i0 == CHOOSE i \in starts : \A j \in starts : i <= j
  IN  IF starts = {} THEN None ELSE Some(SubSeq(text, i0, RunEnd(text, i0 + 4, TRUE)))

\* \d at index i
DigitAt(s, i) == i >= 1 /\ i <= Len(s) /\ CharIn(Ch(s, i), DigitChars)

\* the index after \d{1,2} matched at i, 0 when there is no digit
AfterDigits(low, i) ==
  IF DigitAt(low, i) /\ DigitAt(low, i + 1) THEN i + 2
  ELSE IF DigitAt(low, i) THEN i + 1 ELSE 0

\* the index after (?::\d{2})? matched at j
AfterMinutes(low, j) ==
  IF MatchAt(low, j, ":") /\ DigitAt(low, j + 1) /\ DigitAt(low, j + 2) THEN j + 3 ELSE j

\* the index after \s? matched at j
AfterBlank(low, j) == IF MatchAt(low, j, " ") THEN j + 1 ELSE j

\* the last index of \d{1,2}(?::\d{2})?\s?(?:am|pm) matched at i, 0 when it
\* does not match there (each greedy choice is the only one that can succeed)
TimeEnd(low, i) ==
  IF AfterDigits(low, i) = 0 THEN 0
  ELSE IF \/ MatchAt(low, AfterBlank(low, AfterMinutes(low, AfterDigits(low, i))), "am")
          \/ MatchAt(low, AfterBlank(low, AfterMinutes(low, AfterDigits(low, i))), "pm")
  THEN AfterBlank(low, AfterMinutes(low, AfterDigits(low, i))) + 1
  ELSE 0

\* the words a reminder starts with (reminder and remind me start with remind)
ReminderWords == {"remind", "schedule", "pickup"}

\* the index after the leftmost reminder word of low, 0 when there is none
AfterReminderWord(low) ==
  LET at == {i \in 1..Len(low) : \E w \in ReminderWords : MatchAt(low, i, w)}
      p == CHOOSE i \in at : \A j \in at : i <= j
  IN  IF at = {} THEN 0
      ELSE p + Len(CHOOSE w \in ReminderWords : MatchAt(low, p, w))

\* the first time of day of low at or after index e
FirstTime(text, low, e) ==
  LET at == {i \in e..Len(low) : TimeEnd(low, i) # 0}
      i0 == CHOOSE i \in at : \A j \in at : i <= j
  IN  IF at = {} THEN None ELSE Some(SubSeq(text, i0, TimeEnd(low, i0)))

\* text.match(/(?:remind(?: me)?|reminder|schedule|pickup).*?(\d{1,2}(?::\d{2})?\s?(?:am|pm))/i)[1]
reminderMatch(text) ==
  IF AfterReminderWord(toLowerCase(text)) = 0 THEN None
  ELSE FirstTime(text, toLowerCase(text), AfterReminderWord(toLowerCase(text)))

\* the first index at or after i that holds no blank
SkipBlanks(s, i) ==
  LET stops == {j \in i..(Len(s) + 1) : ~MatchAt(s, j, " ")}
  IN  CHOOSE j \in stops : \A k \in stops : j <= k

\* the index after /\s*(?:,|and)\s*/ matched at i, 0 when it does not match
SeparatorEnd(s, i) ==
  IF MatchAt(s, SkipBlanks(s, i), ",") THEN SkipBlanks(s, SkipBlanks(s, i) + 1)
  ELSE IF MatchAt(s, SkipBlanks(s, i), "and") THEN SkipBlanks(s, SkipBlanks(s, i) + 3)
  ELSE 0

\* s.split(/\s*(?:,|and)\s*/): the pieces from index start on, i being the
\* index the next separator is looked for at
RECURSIVE SplitItems(_, _, _)
SplitItems(s, start, i) ==
  IF i > Len(s) THEN <<SliceFrom(s, start)>>
  ELSE IF SeparatorEnd(s, i) # 0
  THEN <<SubSeq(s, start, i - 1)>> \o SplitItems(s, SeparatorEnd(s, i), SeparatorEnd(s, i))
  ELSE SplitItems(s, start, i + 1)

NonEmpty(piece) == piece # ""

\* text.substring(index + keyword.length).trim().split(...).filter(Boolean)
\* for the first occurrence of keyword in lowerText
ItemsAfter(text, low, keyword) ==
  SelectSeq(SplitItems(trim(SliceFrom(text, indexOf(low, keyword) + Len(keyword))), 1, 1),
            NonEmpty)

\* itemsToRemove.includes(item)
Listed(list, item) == \E k \in 1..Len(list) : list[k] = item

\* (order.items || []).filter(item => !itemsToRemove.includes(item))
WithoutItems(items, toRemove) ==
  LET f[k \in 0..Len(items)] ==
        IF k = 0 THEN <<>>
        ELSE IF Listed(toRemove, items[k]) THEN f[k - 1] ELSE Append(f[k - 1], items[k])
  IN  f[Len(items)]

\* the last index of the greedy run [a-zA-Z ]+ that starts at i
NameEnd(s, i) ==
  LET ok(j) == CharIn(Ch(s, j), LowerAlpha) \/ CharIn(Ch(s, j), UpperAlpha) \/ Ch(s, j) = " "
      ends == {e \in i..Len(s) : /\ \A j \in i..e : ok(j)
                                 /\ (e = Len(s) \/ ~ok(e + 1))}
  IN  CHOOSE e \in ends : TRUE

\* the group of /assign\s+to\s+([a-zA-Z ]+)/i matched at i: [from, to], <<>>
\* when it does not match there.  The second \s+ gives its last blank to the
\* group when no letter follows it.
AssigneeAt(low, i) ==
  LET b == SkipBlanks(low, i + 6)
      d == SkipBlanks(low, b + 2)
  IN  IF ~(MatchAt(low, i, "assign") /\ b > i + 6 /\ MatchAt(low, b, "to") /\ d > b + 2)
      THEN <<>>
      ELSE IF d <= Len(low) /\ CharIn(Ch(low, d), LowerAlpha) THEN <<d, NameEnd(low, d)>>
      ELSE IF d > b + 3 THEN <<d - 1, d - 1>>
      ELSE <<>>

\* match ? match[1].trim() : "Priya Sharma"
Assignee(text, low) ==
  LET at == {i \in 1..Len(low) : AssigneeAt(low, i) # <<>>}
      i0 == CHOOSE i \in at : \A j \in at : i <= j
  IN  IF at = {} THEN "Priya Sharma"
      ELSE trim(SubSeq(text, AssigneeAt(low, i0)[1], AssigneeAt(low, i0)[2]))

\* the status an update utterance sets: of the three ifs the last one wins
StatusUpdate(low) ==
  IF includes(low, "shipped") THEN "status" :> "Shipped"
  ELSE IF includes(low, "processing") THEN "status" :> "Processing"
  ELSE IF includes(low, "delivered") THEN "status" :> "Delivered"
  ELSE <<>>

PickupUpdate(low, now) ==
  IF includes(low, "pickup") THEN "pickupTime" :> Some(now) ELSE <<>>

AssigneeUpdate(text, low) ==
  IF includes(low, "assign") THEN "assignedTo" :> Some(Assignee(text, low)) ELSE <<>>

\* updates.items after the add block and the remove block; items is
\* order.items of the order that trackOrder returned
ItemsUpdate(text, low, items) ==
  IF includes(low, "remove")
  THEN "items" :> WithoutItems(OrElse(items, <<>>), ItemsAfter(text, low, "remove"))
  ELSE IF includes(low, "add")
  THEN "items" :> (OrElse(items, <<>>) \o ItemsAfter(text, low, "add"))
  ELSE <<>>

\* an update block that also sends the tracking code it was given
UpdatesWithCode(text, low, now, items) ==
  ("trackingId" :> toUpperCase(extractTrackingId(text)[1]))
    @@ StatusUpdate(low) @@ PickupUpdate(low, now) @@ AssigneeUpdate(text, low)
    @@ ItemsUpdate(text, low, items)

\* the updates object of the update block: a function from the keys that were
\* set to their values
Updates(text, low, now, items) ==
  StatusUpdate(low) @@ PickupUpdate(low, now) @@ AssigneeUpdate(text, low)
    @@ ItemsUpdate(text, low, items)

\* the utterance is for the update block, for the delete block
IsUpdate(low) == AnyOf(low, {"update", "modify", "change"})

IsDelete(low) == AnyOf(low, {"delete", "cancel"})

(***************************************************************************)
(* services/orderService, the client's calls of the order API.  Its code   *)
(* is not among the source files: the calls are what the persistence       *)
(* collaborator of the specification exposes.                              *)
(***************************************************************************)
\* a call returns, or fails (network error, error status)
ServiceOutcomes == {"ok", "error"}

\* findByTrackingCode(code) -> Order | none
trackOrder(store, trackingId) ==
  IF FindByTrackingId(store, trackingId) = 0 THEN None
  ELSE Some(store[FindByTrackingId(store, trackingId)])

\* the index of the document with this _id, 0 when there is none
FindById(store, id) ==
  LET hits == {i \in 1..Len(store) : store[i]._id = id}
  IN  IF hits = {} THEN 0 ELSE CHOOSE i \in hits : TRUE

\* the patch applied to a document: the keys that are paths of the schema are
\* set (items is none), _id and the timestamps are not the caller's
Patched(order, patch, now) ==
  [f \in DOMAIN order |->
     IF f = "updatedAt" THEN now
     ELSE IF f \in DOMAIN patch /\ f \notin {"_id", "createdAt"} THEN patch[f]
     ELSE order[f]]

\* update(id, patch) -> Order | none: the store after the call
updateOrder(store, id, patch, now) ==
  IF FindById(store, id) = 0 THEN store
  ELSE [store EXCEPT ![FindById(store, id)] = Patched(@, patch, now)]

\* deleteById(id) -> {success}: the store after the call, the record removed
\* entirely
deleteOrder(store, id) ==
  LET keep(o) == o._id # id
  IN  SelectSeq(store, keep)

(***************************************************************************)
(* sendToAI and speak.  The line breaks of the replies are written " - ",  *)
(* the typographic apostrophe is written '                                 *)
(***************************************************************************)
ReminderText(time) == "I'll remind you at " \o time \o "."

AskUpdateIdText == "Please provide a valid tracking ID to update an order."

ClientNotFoundText(trackingId) ==
  "Sorry, I couldn't find any order with ID " \o trackingId \o "."

AskWhatText == "What would you like to update? (status, items, pickup time, assignee, etc.)"

ShownTime(pickupTime) == IF pickupTime = None THEN "not set" ELSE ToString(pickupTime[1])

\* updated.items is undefined: the schema has no such path
UpdatedText(trackingId, updated) ==
  "Order " \o trackingId \o " updated successfully. - Status: " \o updated.status
    \o " - Pickup time: " \o ShownTime(updated.pickupTime)
    \o " - Assigned to: " \o OrElse(updated.assignedTo, "not set")
    \o " - Items: no items"

UpdateFailedText(trackingId) ==
  "Failed to update order " \o trackingId \o ". Please try again."

AskDeleteIdText == "Please provide a valid tracking ID to delete an order."

DeletedText(trackingId) == "Order " \o trackingId \o " has been deleted successfully."

DeleteRefusedText(trackingId) == "Failed to delete order " \o trackingId \o "."

DeleteFailedText(trackingId) ==
  "Failed to delete order " \o trackingId \o ". Please try again."

DetailsText(trackingId, order) ==
  "Here are the details for " \o trackingId \o ": - Customer: "
    \o OrElse(order.customerName, "N/A") \o " - Items: " \o order.item
    \o " - Address: " \o OrElse(order.address, "N/A") \o " - Status: " \o order.status

ProcessFailedText == "Sorry, I couldn't process your request."

ChatMessage(role, content) == [role |-> role, content |-> content]

\* the delay of the setTimeout of speak, in milliseconds
SpeakDelay == 100

\* speak(text): window.speechSynthesis.cancel() and the setTimeout
Spoken(text) ==
  /\ speechSynthesis' = <<>>
  /\ timers' = Append(timers, [text |-> text, left |-> SpeakDelay])

\* setChatHistory(prev => [...prev, { role: "ai", content: reply }]) and
\* speak(reply), after the transcript shown
Said(shown, reply) ==
  /\ chatHistory' = Append(shown, ChatMessage("ai", reply))
  /\ Spoken(reply)

\* the call has taken one more of the blocks of sendToAI
Took(call, block) == [call EXCEPT !.paths = Append(@, block)]

\* the await that follows the update block, which does not return: the
\* delete block or the track block (the tracking code is not null there)
AfterUpdate(call) ==
  IF IsDelete(toLowerCase(call.text))
  THEN [Took(call, "delete") EXCEPT !.pc = "delete_track"]
  ELSE [Took(call, "track") EXCEPT !.pc = "track"]

\* the most messages the transcript holds when a call of sendToAI is made
MaxChat == 3

\* sendToAI(text) up to its first await or its return
SendStart(texts) ==
  /\ send.pc = "idle"
  /\ Len(chatHistory) <= MaxChat
  /\ \E text \in texts :
       LET low == toLowerCase(text)
           shown == Append(chatHistory, ChatMessage("user", text))
           call == [IdleSend EXCEPT !.text = text, !.trackingId = extractTrackingId(text)]
       IN  /\ text # ""
           /\ IF reminderMatch(text) # None
              THEN /\ reminders' = Append(reminders, [time |-> reminderMatch(text)[1],
                                                      text |-> text])
                   /\ Said(shown, ReminderText(reminderMatch(text)[1]))
                   /\ send' = [Took(call, "reminder") EXCEPT !.pc = "done"]
              ELSE /\ UNCHANGED reminders
                   /\ IF IsUpdate(low)
                      THEN IF call.trackingId = None
                           THEN /\ Said(shown, AskUpdateIdText)
                                /\ send' = [Took(call, "update") EXCEPT !.pc = "done"]
                           ELSE /\ chatHistory' = shown
                                /\ send' = [Took(call, "update") EXCEPT !.pc = "update_track"]
                                /\ UNCHANGED <<timers, speechSynthesis>>
                      ELSE IF IsDelete(low)
                      THEN IF call.trackingId = None
                           THEN /\ Said(shown, AskDeleteIdText)
                                /\ send' = [Took(call, "delete") EXCEPT !.pc = "done"]
                           ELSE /\ chatHistory' = shown
                                /\ send' = [Took(call, "delete") EXCEPT !.pc = "delete_track"]
                                /\ UNCHANGED <<timers, speechSynthesis>>
                      ELSE /\ chatHistory' = shown
                           /\ send' = IF call.trackingId # None
                                      THEN [Took(call, "track") EXCEPT !.pc = "track"]
                                      ELSE [Took(call, "backend") EXCEPT !.pc = "fetch"]
                           /\ UNCHANGED <<timers, speechSynthesis>>
  /\ UNCHANGED <<conversationHistory, orders, groq, clock, req>>

\* what order.items of the order that trackOrder returned may be: the schema
\* has no such path, other writers of the collection may have set it
ExistingItems == {None, Some(<<"bread">>), Some(<<"bread", "milk">>)}

\* update block: trackOrder(trackingId) returns or throws; the updates are
\* put together
UpdateTrackReturn ==
  LET id == send.trackingId[1]
      low == toLowerCase(send.text)
  IN  /\ send.pc = "update_track"
      /\ \E outcome \in ServiceOutcomes, items \in ExistingItems :
           IF outcome = "error"
           THEN /\ Said(chatHistory, UpdateFailedText(id))
                /\ send' = AfterUpdate(send)
           ELSE IF trackOrder(orders, id) = None
           THEN /\ Said(chatHistory, ClientNotFoundText(id))
                /\ send' = [send EXCEPT !.pc = "done"]
           ELSE IF DOMAIN Updates(send.text, low, clock, items) = {}
           THEN /\ Said(chatHistory, AskWhatText)
                /\ send' = [send EXCEPT !.pc = "done", !.order = trackOrder(orders, id),
                                        !.items = items]
           ELSE /\ send' = [send EXCEPT !.pc = "update_put",
                                        !.order = trackOrder(orders, id),
                                        !.items = items,
                                        !.updates = Some(Updates(send.text, low, clock, items))]
                /\ UNCHANGED <<chatHistory, timers, speechSynthesis>>
      /\ UNCHANGED <<conversationHistory, orders, groq, clock, req, reminders>>

\* update block: updateOrder(order._id, updates) returns or throws; reading
\* the fields of an order that is no longer there throws as well
UpdatePutReturn ==
  LET id == send.trackingId[1]
      after == updateOrder(orders, send.order[1]._id, send.updates[1], clock)
  IN  /\ send.pc = "update_put"
      /\ \E outcome \in ServiceOutcomes :
           IF outcome = "error"
           THEN /\ Said(chatHistory, UpdateFailedText(id))
                /\ UNCHANGED orders
           ELSE IF FindById(orders, send.order[1]._id) = 0
           THEN /\ Said(chatHistory, UpdateFailedText(id))
                /\ UNCHANGED orders
           ELSE /\ orders' = after
                /\ Said(chatHistory,
                        UpdatedText(id, after[FindById(orders, send.order[1]._id)]))
      /\ send' = AfterUpdate(send)
      /\ UNCHANGED <<conversationHistory, groq, clock, req, reminders>>

\* delete block: trackOrder(trackingId) returns or throws
DeleteTrackReturn ==
  LET id == send.trackingId[1]
  IN  /\ send.pc = "delete_track"
      /\ \E outcome \in ServiceOutcomes :
           IF outcome = "error"
           THEN /\ Said(chatHistory, DeleteFailedText(id))
                /\ send' = [send EXCEPT !.pc = "done"]
           ELSE IF trackOrder(orders, id) = None
           THEN /\ Said(chatHistory, ClientNotFoundText(id))
                /\ send' = [send EXCEPT !.pc = "done"]
           ELSE /\ send' = [send EXCEPT !.pc = "delete_call",
                                        !.order = trackOrder(orders, id)]
                /\ UNCHANGED <<chatHistory, timers, speechSynthesis>>
      /\ UNCHANGED <<conversationHistory, orders, groq, clock, req, reminders>>

\* delete block: deleteOrder(order._id) returns success or not, or throws
DeleteReturn ==
  LET id == send.trackingId[1]
  IN  /\ send.pc = "delete_call"
      /\ \E outcome \in ServiceOutcomes \cup {"refused"} :
           IF outcome = "error"
           THEN /\ Said(chatHistory, DeleteFailedText(id))
                /\ UNCHANGED orders
           ELSE IF outcome = "refused" \/ FindById(orders, send.order[1]._id) = 0
           THEN /\ Said(chatHistory, DeleteRefusedText(id))
                /\ UNCHANGED orders
           ELSE /\ orders' = deleteOrder(orders, send.order[1]._id)
                /\ Said(chatHistory, DeletedText(id))
      /\ send' = [send EXCEPT !.pc = "done"]
      /\ UNCHANGED <<conversationHistory, groq, clock, req, reminders>>

\* track block: trackOrder(trackingId) returns or throws; reading the fields
\* of no order throws as well
ClientTrackReturn ==
  LET id == send.trackingId[1]
  IN  /\ send.pc = "track"
      /\ \E outcome \in ServiceOutcomes :
           IF outcome = "error" \/ trackOrder(orders, id) = None
           THEN Said(chatHistory, ClientNotFoundText(id))
           ELSE Said(chatHistory, DetailsText(id, trackOrder(orders, id)[1]))
      /\ send' = [send EXCEPT !.pc = "done", !.order = trackOrder(orders, id)]
      /\ UNCHANGED <<conversationHistory, orders, groq, clock, req, reminders>>

\* default block: the POST of { text } reaches aiReply, which handles it up
\* to its first await or its response; the body has no userId
FetchArrives ==
  /\ send.pc = "fetch"
  /\ req[1].pc = "idle"
  /\ Receive(1, UserIdOf(None), send.text, parseIntent(send.text), Branch(send.text),
             Dispatch(send.text, Branch(send.text), parseIntent(send.text), groq),
             Append(Seeded(conversationHistory, UserIdOf(None))[UserIdOf(None)],
                    Msg("user", send.text)))
  /\ send' = [send EXCEPT !.pc = "fetch_wait"]
  /\ UNCHANGED <<orders, groq, clock, chatHistory, reminders, timers, speechSynthesis>>

\* default block: res.json() gives the body of the response, whatever its
\* status
FetchReturn ==
  /\ send.pc = "fetch_wait"
  /\ Responded(1)
  /\ Said(chatHistory, Res(1).reply)
  /\ send' = [send EXCEPT !.pc = "done"]
  /\ req' = [req EXCEPT ![1] = IdleReq]
  /\ UNCHANGED <<conversationHistory, orders, groq, clock, reminders>>

\* default block: fetch rejects (the server cannot be reached)
FetchFails ==
  /\ send.pc = "fetch"
  /\ Said(chatHistory, ProcessFailedText)
  /\ send' = [send EXCEPT !.pc = "done"]
  /\ UNCHANGED <<conversationHistory, orders, groq, clock, req, reminders>>

\* the call has returned; the next call of sendToAI takes its place
SendReturns ==
  /\ send.pc = "done"
  /\ send' = IdleSend
  /\ UNCHANGED <<conversationHistory, orders, groq, clock, req, chatHistory, reminders,
                 timers, speechSynthesis>>

\* the time that passes in one step of the client's clock, in milliseconds
TimeStep == 50

\* time passes while no callback is due
Elapse ==
  /\ timers # <<>>
  /\ \A k \in 1..Len(timers) : timers[k].left > 0
  /\ timers' = [k \in 1..Len(timers) |->
                  [timers[k] EXCEPT !.left = IF @ > TimeStep THEN @ - TimeStep ELSE 0]]
  /\ UNCHANGED <<conversationHistory, orders, groq, clock, req, chatHistory, reminders,
                 send, speechSynthesis>>

\* the callback of the setTimeout of speak: window.speechSynthesis.speak(utter)
\* puts the utterance behind the ones the engine holds
TimerFires ==
  /\ timers # <<>>
  /\ timers[1].left = 0
  /\ speechSynthesis' = Append(speechSynthesis, timers[1].text)
  /\ timers' = Tail(timers)
  /\ UNCHANGED <<conversationHistory, orders, groq, clock, req, chatHistory, reminders,
                 send>>

\* the engine has spoken its first utterance to the end
UtteranceEnds ==
  /\ speechSynthesis # <<>>
  /\ speechSynthesis' = Tail(speechSynthesis)
  /\ UNCHANGED <<conversationHistory, orders, groq, clock, req, chatHistory, reminders,
                 send, timers>>

(***************************************************************************)
(* Specifications of the client                                            *)
(***************************************************************************)
\* what the user says or types: updates, deletions and lookups of stored
\* orders, a reminder and a greeting
ClientUtterances ==
  { "update " \o SeedCode(1) \o " shipped",
    "update " \o SeedCode(1) \o " add milk and eggs",
    "update " \o SeedCode(1) \o " remove bread",
    "update " \o SeedCode(1) \o " add milk remove bread",
    "change " \o UnknownCode \o " delivered",
    "update order",
    "cancel order " \o SeedCode(1),
    "delete order " \o SeedCode(2),
    "cancel my order",
    "where is " \o SeedCode(1),
    "remind me at 5 pm",
    "hello" }

\* the calls of sendToAI, one after the other, with the server behind them
ClientNext ==
  \/ SendStart(ClientUtterances)
  \/ UpdateTrackReturn
  \/ UpdatePutReturn
  \/ DeleteTrackReturn
  \/ DeleteReturn
  \/ ClientTrackReturn
  \/ FetchArrives
  \/ FetchReturn
  \/ FetchFails
  \/ SendReturns
  \/ ChatReturn(1)
  \/ BackendHangs(1)

ClientSpec == MixedInit /\ [][ClientNext]_vars

\* the writers of stored orders: the update block of the client next to the
\* cancel_order and update_address blocks of the server (requests of other
\* clients)
CodeUtterances ==
  {"cancel order " \o SeedCode(1), "update address of order " \o ForeignCode \o " to Pune"}

CodeClientUtterances ==
  {"update " \o SeedCode(1) \o " shipped", "change " \o ForeignCode \o " assign to Ravi"}

CodeNext ==
  \/ Start(1, CodeUtterances)
  \/ CancelReturn(1)
  \/ AddressReturn(1)
  \/ SendStart(CodeClientUtterances)
  \/ UpdateTrackReturn
  \/ UpdatePutReturn
  \/ ClientTrackReturn
  \/ SendReturns

CodeSpec == MixedInit /\ [][CodeNext]_vars

\* speech: calls of sendToAI that speak at once, the timers and the engine
SpeechUtterances == {"remind me at 5 pm", "pickup at 10:30am"}

SpeechNext ==
  \/ SendStart(SpeechUtterances)
  \/ SendReturns
  \/ Elapse
  \/ TimerFires
  \/ UtteranceEnds

SpeechSpec == Init /\ [][SpeechNext]_vars

(***************************************************************************)
(* Properties                                                              *)
(***************************************************************************)
\* the first well-formed tracking code of an utterance, ORD- followed by
\* alphanumerics, as it is written there
WellFormedCodeIn(text) ==
  LET starts == {i \in 1..Len(text) :
                   /\ MatchAt(text, i, "ORD-")
                   /\ i + 4 <= Len(text)
                   /\ IsAlnum(Ch(text, i + 4))}
      i0 == CHOOSE i \in starts : \A j \in starts : i <= j
  IN  IF starts = {} THEN None ELSE Some(SubSeq(text, i0, RunEnd(text, i0 + 4, TRUE)))

CodeOf == [text \in AllUtterances |-> WellFormedCodeIn(text)]

\* is id of the form ORD-<alphanumerics>
IsWellFormedCode(id) ==
  /\ Len(id) > 4
  /\ SubSeq(id, 1, 4) = "ORD-"
  /\ \A i \in 5..Len(id) : IsAlnum(Ch(id, i))

\* C1: every request that ends with a 200 response has appended a user turn
\* holding the utterance and, after it, an assistant turn holding the reply
\* it returned
C1_BothTurnsAppended ==
  \A r \in ReqIds :
    (Responded(r) /\ Res(r).status = 200) =>
      LET history == conversationHistory[req[r].userId]
      IN  /\ req[r].userAt >= 1
          /\ req[r].userAt < req[r].replyAt
          /\ req[r].replyAt <= Len(history)
          /\ history[req[r].userAt] = Msg("user", req[r].text)
          /\ history[req[r].replyAt] = Msg("assistant", Res(r).reply)

\* C2: a request of the general (fallback) branch always ends with a 200
\* response; with the backend unconfigured or failing, the response is the
\* static apology with action fallback
C2_BackendFailureDegrades ==
  \A r \in ReqIds :
    (Responded(r) /\ req[r].branch = "general") =>
      /\ Res(r).status = 200
      /\ (~groq \/ req[r].backend = "error") =>
           (Res(r).action = "fallback" /\ Res(r).reply = FallbackReply)

\* C3: every request that aiReply has accepted eventually receives a response
C3_EveryRequestAnswered == \A r \in ReqIds : Received(r) ~> Responded(r)

\* C4: a track utterance that contains a well-formed tracking code is
\* classified with exactly that code, character for character
C4_TrackExtractsExactCode ==
  \A r \in ReqIds :
    (Received(r) /\ req[r].parsed.intent = "track_order" /\ CodeOf[req[r].text] # None) =>
      req[r].parsed.trackingId = CodeOf[req[r].text]

\* C5 as stated: an utterance that contains a tracking code is classified with
\* that code as trackingId also when the winning intent is not track_order
C5_CodeAttachedForEveryIntent ==
  \A r \in ReqIds :
    (Received(r) /\ req[r].parsed.intent # "track_order" /\ CodeOf[req[r].text] # None) =>
      req[r].parsed.trackingId = CodeOf[req[r].text]

\* the rules in their order: the six intents of parseIntent, then the topic
\* blocks of aiReply as they are declared
RuleNames ==
  << "create_order", "track_order", "next_pickup", "list_orders", "cancel_order",
     "update_address", "road_ahead", "earnings", "penalty", "business_growth",
     "onboarding", "emergency", "guide_challan", "guide_digilocker", "insurance",
     "customer_service", "finance", "onboarding_forms", "business_summary", "guides",
     "safety" >>

RulePatterns ==
  << CreateRx, {"track ", "where is order "}, NextPickupRx, ListRx, CancelRx,
     UpdateAddressRx, RoadRx, EarningsRx, PenaltyRx, GrowthRx, OnboardRx, EmergencyRx,
     ChallanRx, DigilockerRx, InsuranceRx, CustomerRx, FinanceRx, OnboardRx, SummaryRx,
     GuideRx, SafetyRx >>

\* does the pattern of rule k match the utterance t, given in lower case (the
\* track patterns need an identifier character after the phrase)
RuleMatches(k, t) ==
  \E w \in RulePatterns[k], i \in 1..Len(t) :
    /\ MatchAt(t, i, w)
    /\ k = 2 => (i + Len(w) <= Len(t) /\ IsIdChar(Ch(t, i + Len(w))))

MatchingRulesOf(t) == {k \in 1..Len(RuleNames) : RuleMatches(k, t)}

MatchingRules == [text \in AllUtterances |-> MatchingRulesOf(toLowerCase(text))]

\* the rule that wins: the earliest matching one, general when none matches
FirstMatch(text) ==
  IF MatchingRules[text] = {} THEN "general"
  ELSE RuleNames[CHOOSE k \in MatchingRules[text] : \A j \in MatchingRules[text] : k <= j]

\* the action values the block of a rule responds with
RuleActions(rule) ==
  CASE rule = "create_order" -> {"created_order"}
    [] rule = "track_order" -> {"track_order", "order_not_found"}
    [] rule = "next_pickup" -> {"next_pickup", "no_pickups"}
    [] rule = "cancel_order" -> {"cancel_order", "ask_for_order_id"}
    [] rule = "update_address" ->
         {"update_address", "ask_for_order_id", "ask_for_address", "order_not_found"}
    [] rule \in {"earnings", "finance"} -> {"business_metrics"}
    [] rule \in {"onboarding", "onboarding_forms"} -> {"onboarding_help"}
    [] rule = "guides" -> {"guide", "learning_module", "ask_for_guide"}
    [] rule = "safety" -> {"safety_alert"}
    [] rule = "general" -> {"llm_reply", "fallback"}
    [] OTHER -> {rule}

\* C6: the block that handles an utterance is the block of the earliest rule
\* whose pattern matches, the response carries an action of that block, and
\* the general fallback answers only when no rule matches
C6_FirstMatchWins ==
  \A r \in ReqIds :
    Received(r) =>
      /\ req[r].branch = FirstMatch(req[r].text)
      /\ (Responded(r) /\ Res(r).status = 200) =>
           /\ Res(r).action \in RuleActions(FirstMatch(req[r].text))
           /\ Res(r).action \in {"llm_reply", "fallback"} => MatchingRules[req[r].text] = {}

C6_Witness ==
  \E r \in ReqIds :
    /\ Responded(r)
    /\ Res(r).status = 200
    /\ Cardinality(MatchingRules[req[r].text]) >= 2
    /\ req[r].branch = "cancel_order"
    /\ 6 \in MatchingRules[req[r].text]

\* C7: the tracking codes of the stored orders are of the form
\* ORD-<alphanumerics> and pairwise different, and a created_order response
\* names the code of exactly one stored order
C7_UniqueTrackingCodes ==
  /\ \A i \in 1..Len(orders) : IsWellFormedCode(orders[i].trackingId)
  /\ \A i, j \in 1..Len(orders) : i # j => orders[i].trackingId # orders[j].trackingId
  /\ \A r \in ReqIds :
       (Responded(r) /\ Res(r).action = "created_order") =>
         /\ Res(r).reply = "Order created. Tracking ID " \o req[r].trackingId \o "."
         /\ Cardinality({i \in 1..Len(orders) : orders[i].trackingId = req[r].trackingId}) = 1

\* two create_order requests have stored their orders
C7_Witness ==
  /\ Len(orders) >= 2
  /\ \E r \in ReqIds : req[r].branch = "create_order" /\ Responded(r)

\* C8: a create_order request that has been answered was answered with
\* created_order and added one order with status created under the code of
\* the reply; when the backend was unconfigured, failed or gave no JSON, that
\* order holds the utterance as item, quantity 1 and no name, address or
\* pickup time
C8_CreateAddsOneOrder ==
  \A r \in ReqIds :
    (Responded(r) /\ req[r].branch = "create_order") =>
      /\ Res(r).status = 200
      /\ Res(r).action = "created_order"
      /\ \E i \in 1..Len(orders) :
           /\ orders[i].trackingId = req[r].trackingId
           /\ orders[i].status \in {"created", "cancelled"}
           /\ req[r].backend \in {"unconfigured", "error", "not_json"} =>
                /\ orders[i].item = req[r].text
                /\ orders[i].qty = 1
                /\ orders[i].customerName = None
                /\ orders[i].pickupTime = None

\* the address the utterance gives: what follows its tracking code, with one
\* leading connector removed
StatedAddress(text) ==
  LET code == CodeOf[text][1]
      rest == trim(SliceFrom(text, indexOf(text, code) + Len(code)))
  IN  IF startsWith(toLowerCase(rest), "to ") \/ startsWith(toLowerCase(rest), "is ")
      THEN trim(SliceFrom(rest, 4))
      ELSE IF startsWith(rest, ":") THEN trim(SliceFrom(rest, 2))
      ELSE rest

\* C9: an update_address request whose utterance holds the code of a stored
\* order and an address after it goes on to update that order with that
\* address
C9_UpdateAddressesStoredOrder ==
  [][\A r \in ReqIds :
       (/\ req[r].pc = "idle"
        /\ req'[r].pc # "idle"
        /\ req'[r].branch = "update_address"
        /\ CodeOf[req'[r].text] # None
        /\ FindByTrackingId(orders, CodeOf[req'[r].text][1]) # 0
        /\ StatedAddress(req'[r].text) # "")
       => /\ req'[r].pc = "address_update"
          /\ req'[r].trackingId = CodeOf[req'[r].text][1]
          /\ req'[r].address = StatedAddress(req'[r].text)]_vars

\* the step in which the update_address request r receives its response
UpdateAnswered(r) ==
  /\ req[r].res = None
  /\ req'[r].res # None
  /\ req'[r].branch = "update_address"

\* C10: an update_address request whose utterance gives a tracking code that
\* matches no order, followed by an address, is answered order_not_found and
\* leaves the store as it was
C10_UnknownCodeNotFound ==
  [][\A r \in ReqIds :
       (/\ UpdateAnswered(r)
        /\ CodeOf[req'[r].text] # None
        /\ StatedAddress(req'[r].text) # ""
        /\ FindByTrackingId(orders, CodeOf[req'[r].text][1]) = 0
        /\ FindByTrackingId(orders, toUpperCase(CodeOf[req'[r].text][1])) = 0)
       => /\ req'[r].res[1].action = "order_not_found"
          /\ orders' = orders]_vars

\* what follows the tracking code in the utterance, the code taken as it is
\* written there, with the connectors stripped
RemainderOf(text) ==
  StripConnector(
    StripConnector(
      StripConnector(AfterCode(text, CodeOf[text][1]), "to ", TRUE),
      "is ", TRUE),
    ":", FALSE)[1]

\* C11: an update_address request whose utterance holds a tracking code is
\* answered ask_for_address exactly when nothing remains after the code once
\* the connectors are stripped, and no stored address is ever empty
C11_AskAddressIffNoRemainder ==
  /\ \A i \in 1..Len(orders) : orders[i].address # Some("")
  /\ \A r \in ReqIds :
       (Responded(r) /\ req[r].branch = "update_address" /\ CodeOf[req[r].text] # None) =>
         (Res(r).action = "ask_for_address" <=> RemainderOf(req[r].text) = "")

\* the step in which request r receives its response
AnsweredIn(r) == req[r].res = None /\ req'[r].res # None

\* the stored order that the tracking code written in the utterance names, 0
\* when the utterance holds no code or no order has it
NamedOrder(text) ==
  IF WellFormedCodeIn(text) = None THEN 0
  ELSE FindByTrackingId(orders, WellFormedCodeIn(text)[1])

\* C12: a request classified cancel_order whose utterance holds the code of a
\* stored order sets the status of that order to cancelled, leaves every other
\* order as it was and replies that the order was cancelled
C12_CancelByEitherPhrase ==
  [][\A r \in ReqIds :
       (/\ AnsweredIn(r)
        /\ req'[r].parsed.intent = "cancel_order"
        /\ NamedOrder(req'[r].text) # 0)
       => /\ Len(orders') = Len(orders)
          /\ orders'[NamedOrder(req'[r].text)].status = "cancelled"
          /\ \A j \in 1..Len(orders) : j # NamedOrder(req'[r].text) => orders'[j] = orders[j]
          /\ req'[r].res[1].reply = CancelledReply(orders[NamedOrder(req'[r].text)])]_vars

\* the step in which the cancel_order request r is answered for a stored
\* order that is already cancelled
CancelledAgain(r) ==
  /\ AnsweredIn(r)
  /\ req[r].pc = "cancel_update"
  /\ FindByTrackingId(orders, req[r].trackingId) # 0
  /\ orders[FindByTrackingId(orders, req[r].trackingId)].status = "cancelled"

\* C13 as stated: cancelling an order that is already cancelled gives the
\* cancelled reply and leaves the store in the state it was in
C13_SecondCancelSameStore ==
  [][\A r \in ReqIds :
       CancelledAgain(r) =>
         /\ req'[r].res[1].status = 200
         /\ req'[r].res[1].reply = CancelledReply(orders[FindByTrackingId(orders, req[r].trackingId)])
         /\ orders' = orders]_vars

\* C13 amended: cancelling an order that is already cancelled gives the
\* cancelled reply and leaves the store in the state it was in except for the
\* updatedAt of that order, which becomes the time of this cancel
C13_SecondCancelSameButUpdatedAt ==
  [][\A r \in ReqIds :
       CancelledAgain(r) =>
         /\ req'[r].res[1].status = 200
         /\ req'[r].res[1].action = "cancel_order"
         /\ req'[r].res[1].reply = CancelledReply(orders[FindByTrackingId(orders, req[r].trackingId)])
         /\ orders' = [orders EXCEPT ![FindByTrackingId(orders, req[r].trackingId)].updatedAt = clock]
         /\ orders'[FindByTrackingId(orders, req[r].trackingId)].status = "cancelled"]_vars

\* two cancel requests for one order have both been answered that the order
\* is cancelled, the later one a tick after the earlier one
C13_Witness ==
  \E r1, r2 \in ReqIds :
    /\ r1 # r2
    /\ Responded(r1) /\ Responded(r2)
    /\ req[r1].pc = "done" /\ req[r2].pc = "done"
    /\ req[r1].text = req[r2].text
    /\ req[r1].branch = "cancel_order"
    /\ FindByTrackingId(orders, req[r1].trackingId) # 0
    /\ Res(r1).reply = CancelledReply(orders[FindByTrackingId(orders, req[r1].trackingId)])
    /\ Res(r2).reply = Res(r1).reply
    /\ orders[FindByTrackingId(orders, req[r1].trackingId)].updatedAt = MaxClock
    /\ orders[FindByTrackingId(orders, req[r1].trackingId)].status = "cancelled"

\* C14: a track_order or cancel_order request whose utterance holds a tracking
\* code that no stored order has is answered with status 200 and a reply that
\* names that code, and leaves the store as it was
C14_UnknownCodeApology ==
  [][\A r \in ReqIds :
       (/\ AnsweredIn(r)
        /\ req'[r].parsed.intent \in {"track_order", "cancel_order"}
        /\ WellFormedCodeIn(req'[r].text) # None
        /\ NamedOrder(req'[r].text) = 0)
       => /\ req'[r].res[1].status = 200
          /\ includes(req'[r].res[1].reply, WellFormedCodeIn(req'[r].text)[1])
          /\ orders' = orders]_vars

\* C15: a cancel_order or update_address request whose utterance holds no
\* tracking code never reaches a store call, and its response has status 200
\* and action ask_for_order_id
C15_NoCodeAsksForId ==
  \A r \in ReqIds :
    (/\ Received(r)
     /\ req[r].parsed.intent \in {"cancel_order", "update_address"}
     /\ WellFormedCodeIn(req[r].text) = None)
    => /\ req[r].pc \notin {"cancel_update", "address_update"}
       /\ Responded(r) => (Res(r).status = 200 /\ Res(r).action = "ask_for_order_id")

\* the orders next_pickup chooses from
OpenOrders(store) ==
  {i \in 1..Len(store) : store[i].status \in {"created", "assigned", "pending"}}

\* order a comes before order b by pickup time ascending, an order without
\* pickup time after every order that has one, then by creation time ascending
PickupFirst(a, b) ==
  \/ a.pickupTime # None /\ b.pickupTime = None
  \/ a.pickupTime # None /\ b.pickupTime # None /\ a.pickupTime[1] < b.pickupTime[1]
  \/ a.pickupTime = b.pickupTime /\ a.createdAt < b.createdAt

\* C16: next_pickup answers no_pickups when no order is created, assigned or
\* pending, and otherwise returns one of these orders that no other of them
\* precedes by pickup time (none last) and creation time
C16_NextPickupOrder ==
  [][\A r \in ReqIds :
       (AnsweredIn(r) /\ req'[r].branch = "next_pickup") =>
         IF OpenOrders(orders) = {}
         THEN /\ req'[r].res[1].action = "no_pickups"
              /\ req'[r].res[1].reply = NoPickupsReply
         ELSE /\ req'[r].res[1].action = "next_pickup"
              /\ \E i \in OpenOrders(orders) :
                   /\ orders[i].trackingId = req'[r].trackingId
                   /\ \A j \in OpenOrders(orders) : ~PickupFirst(orders[j], orders[i])]_vars

\* C17: list_orders returns min(10, number of stored orders) orders, each a
\* stored order and no order twice, newest first, none of them older than an
\* order left out, and the reply states their number ("No orders found." for
\* an empty store)
C17_ListNewestTen ==
  [][\A r \in ReqIds :
       (AnsweredIn(r) /\ req'[r].branch = "list_orders") =>
         LET listed == req'[r].listed
             n == IF Len(orders) < 10 THEN Len(orders) ELSE 10
         IN  /\ req'[r].res[1].status = 200
             /\ req'[r].res[1].action = "list_orders"
             /\ Len(listed) = n
             /\ req'[r].res[1].reply =
                  IF n = 0 THEN "No orders found."
                  ELSE "Showing your " \o ToString(n) \o " most recent orders."
             /\ \A p \in 1..n : \E i \in 1..Len(orders) : orders[i] = listed[p]
             /\ \A p, q \in 1..n : p < q =>
                  /\ listed[p].trackingId # listed[q].trackingId
                  /\ listed[p].createdAt >= listed[q].createdAt
             /\ \A i \in 1..Len(orders) :
                  (\A p \in 1..n : listed[p] # orders[i]) =>
                    \A p \in 1..n : listed[p].createdAt >= orders[i].createdAt
             /\ orders' = orders]_vars

\* a list request has been answered with ten orders from a store of more
C17_Witness ==
  \E r \in ReqIds :
    /\ Responded(r)
    /\ req[r].branch = "list_orders"
    /\ Len(req[r].listed) = ListLimit
    /\ Len(orders) > ListLimit
    /\ req[r].listed[1].createdAt > req[r].listed[ListLimit].createdAt

\* C18: the message list a general request sends to the backend starts with
\* the system preamble, continues with the last 8 turns of the user's session
\* in their order, and ends with the utterance of the request
C18_PreambleAlwaysForwarded ==
  \A r \in ReqIds :
    req[r].pc = "chat" =>
      LET turns == Tail(conversationHistory[req[r].userId])
          last8 == IF Len(turns) <= 8 THEN turns
                   ELSE SubSeq(turns, Len(turns) - 7, Len(turns))
      IN  /\ req[r].messages = <<Msg("system", SystemPreamble)>> \o last8
          /\ req[r].messages[Len(req[r].messages)] = Msg("user", req[r].text)

\* the users that have a session
Users == DOMAIN conversationHistory

\* the step in which request r is received
ReceivedIn(r) == req[r].pc = "idle" /\ req'[r].pc # "idle"

\* C19: every session is non-empty, starts with the system preamble and holds
\* no other system turn; a session comes into being only in the step that
\* receives a request of its user, and no request of that user came before
C19_SessionStartsWithPreamble ==
  /\ [](\A u \in Users :
          /\ Len(conversationHistory[u]) >= 1
          /\ conversationHistory[u][1] = Msg("system", SystemPreamble)
          /\ \A i \in 2..Len(conversationHistory[u]) :
               conversationHistory[u][i].role # "system")
  /\ [][\A u \in DOMAIN conversationHistory' \ Users :
          /\ \E r \in ReqIds : ReceivedIn(r) /\ req'[r].userId = u
          /\ \A q \in ReqIds : req[q].userId # u]_vars

\* every request was made by one user, whose session holds two user turns
\* after its one preamble
C19_Witness ==
  \E u \in Users :
    /\ Cardinality({i \in 1..Len(conversationHistory[u]) :
                      conversationHistory[u][i].role = "user"}) >= 2
    /\ \A r \in ReqIds : req[r].userId = u

\* C20: in every step, every session that exists still exists afterwards and
\* its turn sequence before the step is a prefix of its turn sequence after it
C20_SessionsAppendOnly ==
  [][\A u \in Users :
       /\ u \in DOMAIN conversationHistory'
       /\ Len(conversationHistory'[u]) >= Len(conversationHistory[u])
       /\ SubSeq(conversationHistory'[u], 1, Len(conversationHistory[u]))
            = conversationHistory[u]]_vars

\* a session holds the turns of two answered requests
C20_Witness ==
  \E u \in Users :
    /\ Len(conversationHistory[u]) >= 5
    /\ \A r \in ReqIds : Responded(r) /\ req[r].userId = u

\* C21: a step of a request of user A leaves the session of every other user
\* as it was and creates no session but A's; A is the userId of the body or
\* demo-user; the messages a request forwards to the generative backend are
\* the last turns of A's session, ending with the request's own user turn
C21_OnlyOwnSession ==
  [][\A r \in ReqIds :
       req'[r] # req[r] =>
         LET A == req'[r].userId
             sent == req'[r].messages
         IN  /\ A \in {UserIdOf(body) : body \in BodyUserIds}
             /\ DOMAIN conversationHistory' \subseteq Users \cup {A}
             /\ \A u \in Users \ {A} :
                  /\ u \in DOMAIN conversationHistory'
                  /\ conversationHistory'[u] = conversationHistory[u]
             /\ (ReceivedIn(r) /\ req'[r].pc = "chat") =>
                  /\ Len(sent) >= 1
                  /\ Len(sent) <= Len(conversationHistory'[A])
                  /\ sent = SubSeq(conversationHistory'[A],
                                   Len(conversationHistory'[A]) - Len(sent) + 1,
                                   Len(conversationHistory'[A]))
                  /\ sent[Len(sent)] = Msg("user", req'[r].text)]_vars

\* two users have a session each, with different turns; the request of one
\* was answered at once and the request of the other by the generative backend
C21_Witness ==
  \E r, q \in ReqIds :
    /\ req[r].userId = "demo-user" /\ req[q].userId = "rider-2"
    /\ Responded(r) /\ Responded(q)
    /\ req[r].text # req[q].text
    /\ req[r].messages # <<>>
    /\ Res(r).action = "llm_reply"
    /\ Users = {"demo-user", "rider-2"}

\* C22: in every interleaving, the session of a user holds the preamble, one
\* user turn for each request of the user received and one assistant turn for
\* each reply pushed, and nothing else; each request's user turn is where the
\* request pushed it, and its reply turn comes after it
C22_AppendOrderPreserved ==
  \A u \in Users :
    LET h == conversationHistory[u]
        mine == {r \in ReqIds : Received(r) /\ req[r].userId = u}
        replied == {r \in mine : req[r].replyAt # 0}
    IN  /\ h[1] = Msg("system", SystemPreamble)
        /\ Len(h) = 1 + Cardinality(mine) + Cardinality(replied)
        /\ \A r \in mine :
             /\ req[r].userAt \in 2..Len(h)
             /\ h[req[r].userAt] = Msg("user", req[r].text)
        /\ \A r \in replied :
             /\ req[r].replyAt \in (req[r].userAt + 1)..Len(h)
             /\ h[req[r].replyAt].role = "assistant"
        /\ \A r, q \in mine : r # q => req[r].userAt # req[q].userAt
        /\ \A r, q \in replied : r # q => req[r].replyAt # req[q].replyAt

\* two requests of one user were interleaved: both user turns were pushed
\* before either reply, so the turns do not alternate
C22_Witness ==
  \E u \in Users :
    /\ \A r \in ReqIds : req[r].userId = u /\ Responded(r) /\ req[r].replyAt # 0
    /\ Len(conversationHistory[u]) >= 5
    /\ conversationHistory[u][2].role = "user"
    /\ conversationHistory[u][3].role = "user"
    /\ conversationHistory[u][2].content # conversationHistory[u][3].content

\* the blocks of aiReply by what the claim says of them
StoreWriters == {"create_order", "cancel_order", "update_address"}

StoreReaders == {"track_order", "next_pickup", "list_orders", "earnings", "penalty",
                 "business_growth"}

StoreStrangers == {"road_ahead", "onboarding", "emergency", "guide_challan",
                   "guide_digilocker", "insurance", "customer_service", "general"}

\* the positions at which a call waits for the order store
StoreWaits == {"save", "find_track", "find_next", "find_list", "cancel_update",
               "address_update", "metrics"}

\* C23: a step of a request of a block other than create_order, cancel_order
\* and update_address leaves the order store as it was; a request of a
\* static-knowledge block or of the general fallback never waits for the store
C23_OnlyThreeBlocksWrite ==
  [][\A r \in ReqIds :
       /\ (req'[r] # req[r] /\ req'[r].branch \notin StoreWriters) => orders' = orders
       /\ req'[r].branch \in StoreStrangers => req'[r].pc \notin StoreWaits
       /\ orders' # orders =>
            \E q \in ReqIds : req'[q] # req[q] /\ req[q].branch \in StoreWriters]_vars

\* an update_address request has changed a stored order, in a run that began
\* on a store with two orders
C23_Witness ==
  /\ Responded(1)
  /\ Res(1).action = "update_address"
  /\ Len(orders) = 2
  /\ orders[2].trackingId = ForeignCode
  /\ orders[2].address = Some("Pune")

\* the calendar day and the calendar week (starting on Sunday 00:00) of a time
DayOf(t) == t \div TicksPerDay

WeekOf(t) == t \div (TicksPerDay * DaysPerWeek)

\* the orders of the store created on the day of now, in the week of now up
\* to now, and in the week before
CreatedToday(store, now) ==
  Cardinality({i \in 1..Len(store) : DayOf(store[i].createdAt) = DayOf(now)})

CreatedThisWeek(store, now) ==
  Cardinality({i \in 1..Len(store) : /\ WeekOf(store[i].createdAt) = WeekOf(now)
                                     /\ store[i].createdAt < now})

CreatedLastWeek(store, now) ==
  Cardinality({i \in 1..Len(store) : WeekOf(store[i].createdAt) = WeekOf(now) - 1})

\* the step in which request r gets the metrics and answers
MetricsAnswered(r) == req[r].pc = "metrics" /\ req'[r].pc = "done"

C24_EarningsCountOrdersWithMetadata ==
  [][\A r \in ReqIds :
       (MetricsAnswered(r) /\ \A i \in 1..Len(orders) : orders[i].metadata # None) =>
         LET n == CreatedToday(orders, clock)
         IN  /\ req[r].branch = "earnings" =>
                  req'[r].res[1].reply =
                    "Aaj aapne Rs." \o ToString(200 * n) \o " kamaya aur Rs."
                      \o ToString(50 * n) \o " kharch kiya. Net earning: Rs."
                      \o ToString(200 * n - 50 * n) \o "."
             /\ req[r].branch = "business_growth" =>
                  req'[r].res[1].reply =
                    IF CreatedThisWeek(orders, clock) > CreatedLastWeek(orders, clock)
                    THEN "Haan, iss hafte aapka business pichle hafte se behtar hai."
                    ELSE "Nahi, iss hafte kamai kam hai."]_vars

\* the step in which request r responds
RespondsIn(r) == req[r].pc # "done" /\ req'[r].pc = "done"

\* C29: a request that names a stored order by its tracking code as the
\* creation reply printed it resolves to that order: track order <code>
\* answers with its details, cancel order <code> sets its status to
\* cancelled, update address of order <code> to Pune sets its address
C29_MintedCodeRoundTrip ==
  [][\A r \in ReqIds : \A i \in 1..Len(orders) :
       RespondsIn(r) =>
         LET code == orders[i].trackingId
             text == req'[r].text
             res == req'[r].res[1]
         IN  /\ text = "track order " \o code =>
                  /\ res.action = "track_order"
                  /\ res.reply = TrackReply(orders[i])
             /\ text = "cancel order " \o code =>
                  /\ res.action = "cancel_order"
                  /\ res.reply = CancelledReply(orders[i])
                  /\ orders'[i].status = "cancelled"
             /\ text = "update address of order " \o code \o " to Pune" =>
                  /\ res.action = "update_address"
                  /\ orders'[i].address = Some("Pune")]_vars

\* the same for cancel order <code> alone
C29_CancelRoundTrip ==
  [][\A r \in ReqIds : \A i \in 1..Len(orders) :
       (RespondsIn(r) /\ req'[r].text = "cancel order " \o orders[i].trackingId) =>
         /\ req'[r].res[1].action = "cancel_order"
         /\ req'[r].res[1].reply = CancelledReply(orders[i])
         /\ orders'[i].status = "cancelled"]_vars

\* C30: when requests are made one after the other and none is in progress,
\* the turns of every session after the preamble alternate user, assistant;
\* a request that ended with the internal-error response has left no turn
C30_FailedRequestLeavesNoTurn ==
  \A u \in Users :
    req[1].pc \in {"idle", "done"} =>
      LET h == conversationHistory[u]
      IN  /\ Len(h) % 2 = 1
          /\ \A i \in 2..Len(h) :
               h[i].role = IF i % 2 = 0 THEN "user" ELSE "assistant"
          /\ (Responded(1) /\ Res(1).status = 500 /\ req[1].userId = u) =>
               Len(h) < req[1].userAt

(***************************************************************************)
(* C25: the tracking code of an order never changes.  Whatever step is     *)
(* taken (the cancel_order and update_address blocks of the server, the    *)
(* update block of the client), a document that is in the collection       *)
(* before and after the step has the tracking code it had.                 *)
(***************************************************************************)
C25_TrackingCodeImmutable ==
  [][\A i \in 1..Len(orders), j \in 1..Len(orders') :
       orders'[j]._id = orders[i]._id => orders'[j].trackingId = orders[i].trackingId]_vars

\* the client has updated both orders and the server has cancelled one and
\* given the other a new address: the codes are the ones they were created
\* with
C25_Witness ==
  /\ Len(orders) = 2
  /\ orders[1].trackingId = SeedCode(1)
  /\ orders[1].status \in {"Shipped", "cancelled"}
  /\ orders[1].updatedAt > orders[1].createdAt
  /\ orders[2].trackingId = ForeignCode
  /\ orders[2].address = Some("Pune")
  /\ orders[2].assignedTo = Some("Ravi")

(***************************************************************************)
(* C26: a record leaves the collection only by an explicit delete.  In     *)
(* every step that removes a document, the utterance the client is         *)
(* handling asks to delete; an utterance that asks to cancel removes       *)
(* nothing.                                                                *)
(***************************************************************************)
Removed(i) == \A j \in 1..Len(orders') : orders'[j]._id # orders[i]._id

C26_OnlyDeleteRemoves ==
  [][\A i \in 1..Len(orders) :
       Removed(i) => includes(toLowerCase(send.text), "delete")]_vars

\* the cancel_order block of the server keeps the record: no step of a
\* request removes a document
C26_ServerKeepsRecords ==
  [][\A i \in 1..Len(orders) :
       Removed(i) => send.pc = "delete_call"]_vars

(***************************************************************************)
(* C27: speech never piles up.  Whenever the callback of a speak call      *)
(* hands its utterance to the speech engine, the engine holds no utterance *)
(* of an earlier call, queued or being spoken.                             *)
(***************************************************************************)
C27_NoUtterancePilesUp ==
  [][Len(speechSynthesis') > Len(speechSynthesis) => speechSynthesis = <<>>]_vars

\* a speak call does reset the engine at the moment it is made: after the
\* step of a call the engine holds nothing
C27_CallResetsEngine ==
  [][Len(timers') > Len(timers) => speechSynthesis' = <<>>]_vars

(***************************************************************************)
(* C28: the item list the update block sends.  With 'add' alone it is the  *)
(* existing list followed by the parsed items, with 'remove' alone the     *)
(* existing list without the items that match exactly, and with both       *)
(* keywords every added item is in the list sent to updateOrder and no     *)
(* removed item is.                                                        *)
(***************************************************************************)
\* the step in which the update block has put its updates together
UpdatesBuilt == send.pc = "update_track" /\ send'.pc = "update_put"

SentItems(call) == call.updates[1]["items"]

SendsItems(call) == "items" \in DOMAIN call.updates[1]

Added(call) == ItemsAfter(call.text, toLowerCase(call.text), "add")

Taken(call) == ItemsAfter(call.text, toLowerCase(call.text), "remove")

Kept(call) ==
  LET stays(item) == \A k \in 1..Len(Taken(call)) : Taken(call)[k] # item
  IN  SelectSeq(OrElse(call.items, <<>>), stays)

AddsOnly(call) ==
  includes(toLowerCase(call.text), "add") /\ ~includes(toLowerCase(call.text), "remove")

RemovesOnly(call) ==
  includes(toLowerCase(call.text), "remove") /\ ~includes(toLowerCase(call.text), "add")

AddsAndRemoves(call) ==
  includes(toLowerCase(call.text), "add") /\ includes(toLowerCase(call.text), "remove")

AddApplied(call) ==
  SendsItems(call) /\ SentItems(call) = OrElse(call.items, <<>>) \o Added(call)

RemoveApplied(call) == SendsItems(call) /\ SentItems(call) = Kept(call)

BothApplied(call) ==
  /\ SendsItems(call)
  /\ \A k \in 1..Len(Added(call)) : Listed(SentItems(call), Added(call)[k])
  /\ \A k \in 1..Len(Taken(call)) : ~Listed(SentItems(call), Taken(call)[k])

C28_AddAndRemoveApplied ==
  [][UpdatesBuilt =>
       /\ AddsOnly(send') => AddApplied(send')
       /\ RemovesOnly(send') => RemoveApplied(send')
       /\ AddsAndRemoves(send') => BothApplied(send')]_vars

\* with one of the two keywords the list sent is the one described
C28_OneKeywordApplied ==
  [][UpdatesBuilt =>
       /\ AddsOnly(send') => AddApplied(send')
       /\ RemovesOnly(send') => RemoveApplied(send')]_vars

\* updates of both kinds are sent: two items added to a list of two, one
\* item removed from it
C28_OneKeywordReached ==
  /\ send.pc = "update_put"
  /\ send.items = Some(<<"bread", "milk">>)
  /\ \/ AddsOnly(send) /\ SentItems(send) = <<"bread", "milk", "milk", "eggs">>
     \/ RemovesOnly(send) /\ SentItems(send) = <<"milk">>

(***************************************************************************)
(* C31: in every branch the assistant turn that a request appended to the  *)
(* session holds the string that its response returned as reply, the       *)
(* branches whose reply goes through translateToHindi included.            *)
(***************************************************************************)
TurnOf(r) == conversationHistory[req[r].userId][req[r].replyAt]

Returned200(r) ==
  /\ Responded(r)
  /\ Res(r).status = 200
  /\ req[r].replyAt \in 1..Len(conversationHistory[req[r].userId])

C31_TurnHoldsReturnedReply ==
  \A r \in ReqIds : Returned200(r) => TurnOf(r).content = Res(r).reply

\* the actions of the blocks that call translateToHindi twice, once for the
\* turn and once for the response
TwiceTranslated ==
  {"onboarding_help", "business_summary", "guide", "learning_module", "ask_for_guide",
   "safety_alert"}

\* every other block pushes what it returns, and so does every block while
\* the backend is not configured
C31_OtherBlocksAgree ==
  \A r \in ReqIds :
    (Returned200(r) /\ (~groq \/ Res(r).action \notin TwiceTranslated))
      => TurnOf(r).content = Res(r).reply

(***************************************************************************)
(* C32: a trackingId that parseIntent returns is a well-formed tracking    *)
(* code (ORD- followed by alphanumerics) that occurs in the utterance, and *)
(* an utterance without such a code is never dispatched to the lookup of   *)
(* an order by its identifier.                                             *)
(***************************************************************************)
C32_TrackingIdIsCodeOfUtterance ==
  \A r \in ReqIds :
    Received(r) =>
      /\ req[r].parsed.trackingId # None =>
           /\ IsWellFormedCode(req[r].parsed.trackingId[1])
           /\ includes(req[r].text, req[r].parsed.trackingId[1])
      /\ CodeOf[req[r].text] = None => req[r].branch # "track_order"

\* what parseIntent does return: a run of letters, digits and hyphens of the
\* lower-cased utterance, and only with the intent track_order
C32_TrackingIdIsWordOfLowerCased ==
  \A r \in ReqIds :
    (Received(r) /\ req[r].parsed.trackingId # None) =>
      /\ req[r].parsed.intent = "track_order"
      /\ req[r].parsed.trackingId[1] # ""
      /\ \A i \in 1..Len(req[r].parsed.trackingId[1]) :
           IsIdChar(Ch(req[r].parsed.trackingId[1], i))
      /\ includes(toLowerCase(req[r].text), req[r].parsed.trackingId[1])

(***************************************************************************)
(* C33: an utterance given to sendToAI takes exactly one handling path     *)
(* (reminder, update, delete, track or the server) and gets exactly one AI *)
(* reply, spoken once; an update does not also run the delete or the track *)
(* handling for the same utterance.                                        *)
(***************************************************************************)
\* the AI messages behind the last user message of the transcript: the
\* replies (each one spoken by speak) of the call being made
RepliesOfCall ==
  Cardinality({k \in 1..Len(chatHistory) :
                 /\ chatHistory[k].role = "ai"
                 /\ \A j \in k..Len(chatHistory) : chatHistory[j].role = "ai"})

C33_OnePathOneReply ==
  send.pc = "done" => (Len(send.paths) = 1 /\ RepliesOfCall = 1)

\* a call that ends within the block it entered has one reply; the calls
\* with more are those that went through the update block to the delete or
\* the track block
C33_OneReplyPerBlock ==
  send.pc = "done" =>
    /\ RepliesOfCall \in 1..Len(send.paths)
    /\ Len(send.paths) > 1 =>
         (send.paths[1] = "update" /\ send.paths[2] \in {"delete", "track"})

\* a successful update that went on to the track block: the order is
\* updated and the transcript ends with the update reply and the details
C33_UpdateThenTrackReached ==
  /\ send.pc = "done"
  /\ send.paths = <<"update", "track">>
  /\ Len(orders) >= 1
  /\ orders[1].status = "Shipped"
  /\ RepliesOfCall = 2
  /\ chatHistory[Len(chatHistory)].content = DetailsText(SeedCode(1), orders[1])

====
